---- MODULE Spec2Model ----
(***************************************************************************)
(* Replenishment pipeline of claude-comprasV2: the stock-level calculator  *)
(* (app/services/stock_calculator.py) and the allocation engine            *)
(* (app/services/distribution_service.py), with the demand forecaster      *)
(* (app/services/demand_forecaster.py) and the request loop of the ERP     *)
(* client (app/services/dux_api_client.py).                                *)
(*                                                                         *)
(* Quantities of stock are Python floats in the source.  Here they are     *)
(* integers counting hundredths of a unit (Unit = 100), the precision the  *)
(* calculator stores (round(x, 2)).  The allocation inputs are multiples   *)
(* of half a unit, which binary floating point represents exactly, so the  *)
(* float arithmetic of the allocation code is exact on them.  The          *)
(* calculator works on finer values (RawUnit per unit); the one place      *)
(* where the binary representation decides its outcome, a value exactly    *)
(* halfway between two hundredths handed to round(x, 2), is a              *)
(* nondeterministic choice between the two neighbours.                     *)
(***************************************************************************)
EXTENDS Integers, Sequences, FiniteSets, TLC

VARIABLES
    stock_levels,       \* the List[StockLevel] handed to the allocation engine
    target_level,       \* argument of the last allocation call
    excluded_deposits,  \* argument of the last allocation call
    excluded_brands,    \* argument of the last allocation call
    result,             \* DistributionResult of the last allocation call
    system_config,      \* the rows of table system_config: key -> value
    global_config,      \* StockCalculator.global_config
    config_cache,       \* StockCalculator.config_cache
    subrubro_thresholds,\* StockCalculator.subrubro_thresholds
    products_stock,     \* the rows _get_products_with_stock reads from the database
    forecasts,          \* the ForecastResult of each row of products_stock
    results,            \* the list returned by the last calculate_all_stock_levels
    sales_history,      \* argument of calculate_demand: rows (fecha, cantidad, monto)
    days_back,          \* argument of calculate_demand
    metodo_preferido,   \* DemandForecaster.metodo_preferido
    forecast_result,    \* ForecastResult of the last calculate_demand
    selection_args,     \* arguments of _seleccionar_mejor_metodo
    selection_result,   \* tuple returned by the last _seleccionar_mejor_metodo
    max_retries,        \* DuxAPIClient.max_retries
    retry_count,        \* argument retry_count of the running _make_request
    request_state,      \* idle, requesting, returned or raised
    outcomes,           \* what the server did at each HTTP attempt of the call
    stats,              \* DuxAPIClient.stats
    consecutive_429_errors \* RateLimitHandler.consecutive_429_errors

distVars == <<stock_levels, target_level, excluded_deposits, excluded_brands, result>>
calcVars == <<system_config, global_config, config_cache, subrubro_thresholds,
              products_stock, forecasts, results>>
forecastVars == <<sales_history, days_back, metodo_preferido, forecast_result,
                  selection_args, selection_result>>
requestVars == <<max_retries, retry_count, request_state, outcomes, stats,
                 consecutive_429_errors>>
vars == <<stock_levels, target_level, excluded_deposits, excluded_brands, result,
          system_config, global_config, config_cache, subrubro_thresholds,
          products_stock, forecasts, results,
          sales_history, days_back, metodo_preferido, forecast_result,
          selection_args, selection_result,
          max_retries, retry_count, request_state, outcomes, stats,
          consecutive_429_errors>>

----------------------------------------------------------------------------
(* Numbers *)

\* Hundredths per unit of stock.
Unit == 100

Max(a, b) == IF a >= b THEN a ELSE b
Min(a, b) == IF a <= b THEN a ELSE b

\* int(round(x)) of Python 3 on a value x given in hundredths: nearest unit,
\* an exact half goes to the even neighbour.
RoundToUnit(x) ==
    LET q == x \div Unit
        r == x % Unit
    IN  IF 2 * r < Unit THEN q
        ELSE IF 2 * r > Unit THEN q + 1
        ELSE IF q % 2 = 0 THEN q ELSE q + 1

\* IntTrunc that counts a started unit as a whole one.
IntTruncUp(x) == IF x >= 0 THEN (x + Unit - 1) \div Unit ELSE -((-x) \div Unit)

\* IntTrunc with round() written for int(): the nearest unit.
IntTruncRounded(x) == RoundToUnit(x)

\* int(x) of Python on a value x given in hundredths: truncation towards zero.
IntTrunc(x) == IF x >= 0 THEN x \div Unit ELSE -((-x) \div Unit)

RECURSIVE SumSeq(_)
SumSeq(s) == IF s = <<>> THEN 0 ELSE Head(s) + SumSeq(Tail(s))

\* [f(s[1]), ..., f(s[n])]
MapSeq(s, f(_)) == [i \in 1..Len(s) |-> f(s[i])]

----------------------------------------------------------------------------
(* Allocation engine: shared helpers *)

CENTRAL_DEPOSIT_NAME == "DEPOSITO RUTA 9"

TargetLevels == {"minimo", "ideal", "maximo"}

\* if target_level == 'minimo' ... elif 'maximo' ... else (ideal)
StockObjetivo(sl, level) ==
    IF level = "minimo" THEN sl.stock_minimo
    ELSE IF level = "maximo" THEN sl.stock_maximo
    ELSE sl.stock_ideal

\* grouped[product_id][deposito_nombre] = sl on an insertion-ordered dict: a
\* new key is appended, an existing key keeps its place and takes the new row.
PutDeposit(deposits, sl) ==
    IF \E j \in 1..Len(deposits) : deposits[j].deposito_nombre = sl.deposito_nombre
    THEN LET j == CHOOSE k \in 1..Len(deposits) :
                      deposits[k].deposito_nombre = sl.deposito_nombre
         IN  [deposits EXCEPT ![j] = sl]
    ELSE Append(deposits, sl)

PutProduct(grouped, sl) ==
    IF \E i \in 1..Len(grouped) : grouped[i].product_id = sl.product_id
    THEN LET i == CHOOSE k \in 1..Len(grouped) : grouped[k].product_id = sl.product_id
         IN  [grouped EXCEPT ![i].deposits = PutDeposit(@, sl)]
    ELSE Append(grouped, [product_id |-> sl.product_id, deposits |-> <<sl>>])

RECURSIVE GroupFrom(_, _, _)
GroupFrom(levels, k, grouped) ==
    IF k > Len(levels) THEN grouped
    ELSE GroupFrom(levels, k + 1, PutProduct(grouped, levels[k]))

\* _group_by_product: the products in order of first appearance, each with
\* its rows in order of first appearance of the deposit.
GroupByProduct(levels) == GroupFrom(levels, 1, <<>>)

IsCentral(sl) == sl.deposito_nombre = CENTRAL_DEPOSIT_NAME
IsSucursal(sl) == ~IsCentral(sl)

----------------------------------------------------------------------------
(* generate_distribution *)

FilteredLevels(levels, exd, exb) ==
    SelectSeq(levels, LAMBDA sl : sl.deposito_nombre \notin exd /\ sl.marca \notin exb)

NewTransfer(origen, destino, cantidad, origen_despues, objetivo) ==
    [product_id             |-> origen.product_id,
     deposit_origen_nombre  |-> origen.deposito_nombre,
     deposit_destino_nombre |-> destino.deposito_nombre,
     cantidad_transferir    |-> cantidad,
     stock_origen_antes     |-> origen.stock_actual,
     stock_origen_despues   |-> origen_despues,
     stock_destino_antes    |-> destino.stock_actual,
     stock_destino_despues  |-> destino.stock_actual + cantidad * Unit,
     stock_minimo_destino   |-> destino.stock_minimo,
     stock_ideal_destino    |-> destino.stock_ideal,
     stock_objetivo_destino |-> objetivo]

NewPurchaseNeed(central, destino, cantidad, actual_destino, objetivo, origen_necesidad) ==
    [product_id             |-> destino.product_id,
     deposit_destino_nombre |-> destino.deposito_nombre,
     cantidad_necesaria     |-> cantidad,
     stock_actual_destino   |-> actual_destino,
     stock_objetivo_destino |-> objetivo,
     stock_central_actual   |-> central.stock_actual,
     stock_central_minimo   |-> central.stock_minimo,
     origen_necesidad       |-> origen_necesidad]

\* DisponibleCentral without the floor of the central: all its stock.
DisponibleCentralIgnoringMinimo(central) == Max(0, central.stock_actual)

\* disponible_central = max(0, central.stock_actual - central.stock_minimo)
DisponibleCentral(central) == Max(0, central.stock_actual - central.stock_minimo)

\* FaltanteRestante without the subtraction: the whole deficit.
FaltanteRestanteWhole(faltante_int, cantidad_transferir) == faltante_int

\* faltante_restante = faltante_int - cantidad_transferir
FaltanteRestante(faltante_int, cantidad_transferir) == faltante_int - cantidad_transferir

\* One iteration of `for sucursal in sucursales_data`.  st is the loop state
\* [disponible_central, transfers, purchase_needs].
ProcessSucursal(st, central, sucursal, level) ==
    LET stock_objetivo == StockObjetivo(sucursal, level)
        faltante       == stock_objetivo - sucursal.stock_actual
        faltante_int   == RoundToUnit(faltante)
        disponible     == st.disponible_central
    IN  IF faltante <= 0 THEN st
        ELSE IF faltante_int <= 0 THEN st
        ELSE IF disponible >= faltante_int * Unit THEN
            \* the central covers the whole deficit
            [st EXCEPT
               !.disponible_central = disponible - faltante_int * Unit,
               !.transfers = Append(@,
                   NewTransfer(central, sucursal, faltante_int,
                               central.stock_actual - faltante_int * Unit,
                               stock_objetivo))]
        ELSE IF disponible > 0 THEN
            \* the central covers part of the deficit
            LET cantidad_transferir == IntTrunc(disponible)
                faltante_restante   == FaltanteRestante(faltante_int, cantidad_transferir)
            IN  [st EXCEPT
                   !.disponible_central = 0,
                   !.transfers = Append(@,
                       NewTransfer(central, sucursal, cantidad_transferir,
                                   central.stock_minimo, stock_objetivo)),
                   !.purchase_needs = Append(@,
                       NewPurchaseNeed(central, sucursal, faltante_restante,
                                       sucursal.stock_actual + cantidad_transferir * Unit,
                                       stock_objetivo, "Sucursal sin cobertura"))]
        ELSE
            \* the central has nothing to give
            [st EXCEPT
               !.purchase_needs = Append(@,
                   NewPurchaseNeed(central, sucursal, faltante_int,
                                   sucursal.stock_actual, stock_objetivo,
                                   "Central sin stock"))]

RECURSIVE ProcessSucursales(_, _, _, _, _)
ProcessSucursales(st, central, sucursales, k, level) ==
    IF k > Len(sucursales) THEN st
    ELSE ProcessSucursales(ProcessSucursal(st, central, sucursales[k], level),
                           central, sucursales, k + 1, level)

\* CentralBajoMinimo sized to reach the minimum whatever the level.
CentralBajoMinimoToMinimum(st, central, level) ==
    IF central.stock_actual < central.stock_minimo
    THEN LET faltante_central_int ==
                 RoundToUnit(central.stock_minimo - central.stock_actual)
         IN  IF faltante_central_int > 0
             THEN [st EXCEPT !.purchase_needs = Append(@,
                       NewPurchaseNeed(central, central, faltante_central_int,
                                       central.stock_actual, central.stock_minimo,
                                       "Central bajo mínimo"))]
             ELSE st
    ELSE st

\* `if central_data.stock_actual < central_data.stock_minimo:` after the loop.
CentralBajoMinimo(st, central, level) ==
    IF central.stock_actual < central.stock_minimo
    THEN LET stock_objetivo_central == StockObjetivo(central, level)
             faltante_central_int ==
                 RoundToUnit(stock_objetivo_central - central.stock_actual)
         IN  IF faltante_central_int > 0
             THEN [st EXCEPT !.purchase_needs = Append(@,
                       NewPurchaseNeed(central, central, faltante_central_int,
                                       central.stock_actual, stock_objetivo_central,
                                       "Central bajo mínimo"))]
             ELSE st
    ELSE st

\* DistributeProduct that raises a purchase need 'Central sin stock' for the
\* first row of a product whose central row is missing.
DistributeProductWithoutCentral(acc, deposits, level) ==
    LET centrales  == SelectSeq(deposits, IsCentral)
        sucursales == SelectSeq(deposits, IsSucursal)
    IN  IF centrales = <<>>
        THEN [acc EXCEPT !.purchase_needs = Append(@,
                  NewPurchaseNeed(sucursales[1], sucursales[1], 1,
                                  sucursales[1].stock_actual,
                                  StockObjetivo(sucursales[1], level),
                                  "Central sin stock"))]
        ELSE LET central == centrales[1]
                 st0 == [disponible_central |-> DisponibleCentral(central),
                         transfers          |-> acc.transfers,
                         purchase_needs     |-> acc.purchase_needs]
                 st1 == ProcessSucursales(st0, central, sucursales, 1, level)
                 st2 == CentralBajoMinimo(st1, central, level)
             IN  [transfers |-> st2.transfers, purchase_needs |-> st2.purchase_needs]

\* The body of `for product_id, deposits_data in products_by_id.items()`.
\* acc is [transfers, purchase_needs], the two lists of the whole call.
DistributeProduct(acc, deposits, level) ==
    LET centrales  == SelectSeq(deposits, IsCentral)
        sucursales == SelectSeq(deposits, IsSucursal)
    IN  IF centrales = <<>> THEN acc
        ELSE LET central == centrales[1]
                 st0 == [disponible_central |-> DisponibleCentral(central),
                         transfers          |-> acc.transfers,
                         purchase_needs     |-> acc.purchase_needs]
                 st1 == ProcessSucursales(st0, central, sucursales, 1, level)
                 st2 == CentralBajoMinimo(st1, central, level)
             IN  [transfers |-> st2.transfers, purchase_needs |-> st2.purchase_needs]

RECURSIVE DistributeProducts(_, _, _, _)
DistributeProducts(acc, grouped, i, level) ==
    IF i > Len(grouped) THEN acc
    ELSE DistributeProducts(DistributeProduct(acc, grouped[i].deposits, level),
                            grouped, i + 1, level)

CantidadTransferir(t) == t.cantidad_transferir
CantidadNecesaria(p) == p.cantidad_necesaria

\* DistributionService.generate_distribution as a function of its arguments.
DistributionOf(levels, level, exd, exb) ==
    LET grouped == GroupByProduct(FilteredLevels(levels, exd, exb))
        out == DistributeProducts([transfers |-> <<>>, purchase_needs |-> <<>>],
                                  grouped, 1, level)
    IN  [op             |-> "generate_distribution",
         transfers      |-> out.transfers,
         purchase_needs |-> out.purchase_needs,
         summary        |->
            [total_transfers         |-> Len(out.transfers),
             total_purchase_needs    |-> Len(out.purchase_needs),
             total_units_to_transfer |-> SumSeq(MapSeq(out.transfers, CantidadTransferir)),
             total_units_to_purchase |-> SumSeq(MapSeq(out.purchase_needs, CantidadNecesaria))]]

----------------------------------------------------------------------------
(* generate_excess_redistribution *)

\* excedentes.append(...) for the rows with stock above the maximum.
IsExcedente(sl) ==
    /\ sl.stock_actual > sl.stock_maximo
    /\ sl.stock_maximo > 0
    /\ sl.stock_actual - sl.stock_ideal >= Unit

NewExcedente(sl) ==
    [deposito             |-> sl.deposito_nombre,
     stock_level          |-> sl,
     excedente_disponible |-> sl.stock_actual - sl.stock_ideal]

\* faltantes.append(...) for the rows short of the target.
IsFaltante(sl, level) ==
    /\ StockObjetivo(sl, level) - sl.stock_actual >= Unit
    /\ sl.stock_actual < sl.stock_ideal

NewFaltante(sl, level) ==
    [deposito       |-> sl.deposito_nombre,
     stock_level    |-> sl,
     faltante       |-> StockObjetivo(sl, level) - sl.stock_actual,
     stock_objetivo |-> StockObjetivo(sl, level)]

\* RankDesc with equal keys in the reverse of their original order.
RankDescTiesReversed(keys, i) ==
    1 + Cardinality({j \in 1..Len(keys) :
                        keys[j] > keys[i] \/ (keys[j] = keys[i] /\ j > i)})

\* Position of element i after list.sort(key=..., reverse=True): descending
\* by key, equal keys keep their original relative order.
RankDesc(keys, i) ==
    1 + Cardinality({j \in 1..Len(keys) :
                        keys[j] > keys[i] \/ (keys[j] = keys[i] /\ j < i)})

SortDesc(s, keys) ==
    [r \in 1..Len(s) |-> s[CHOOSE i \in 1..Len(s) : RankDesc(keys, i) = r]]

ExcedenteDisponible(e) == e.excedente_disponible
Faltante(f) == f.faltante

SortedExcedentes(deposits) ==
    LET excedentes == MapSeq(SelectSeq(deposits, IsExcedente), NewExcedente)
    IN  SortDesc(excedentes, MapSeq(excedentes, ExcedenteDisponible))

SortedFaltantes(deposits, level) ==
    LET IsF(sl) == IsFaltante(sl, level)
        NewF(sl) == NewFaltante(sl, level)
        faltantes == MapSeq(SelectSeq(deposits, IsF), NewF)
    IN  SortDesc(faltantes, MapSeq(faltantes, Faltante))

\* PairTransfer with the stock level of the surplus entry taken as the
\* destination too.
PairTransferToSource(st, i, j) ==
    LET exc == st.excedentes[i]
        fal == st.faltantes[j]
        cantidad     == Min(exc.excedente_disponible, fal.faltante)
        cantidad_int == RoundToUnit(cantidad)
    IN  IF cantidad_int < 1 THEN st
        ELSE [excedentes |->
                 [st.excedentes EXCEPT ![i].excedente_disponible = @ - cantidad_int * Unit],
              faltantes |->
                 [st.faltantes EXCEPT ![j].faltante = @ - cantidad_int * Unit],
              transfers |-> Append(st.transfers,
                 NewTransfer(exc.stock_level, exc.stock_level, cantidad_int,
                             exc.stock_level.stock_actual - cantidad_int * Unit,
                             fal.stock_objetivo))]

\* One iteration of `for fal in faltantes` that reaches the transfer: st is
\* [excedentes, faltantes, transfers], i the surplus entry, j the deficit entry.
PairTransfer(st, i, j) ==
    LET exc == st.excedentes[i]
        fal == st.faltantes[j]
        cantidad     == Min(exc.excedente_disponible, fal.faltante)
        cantidad_int == RoundToUnit(cantidad)
    IN  IF cantidad_int < 1 THEN st
        ELSE [excedentes |->
                 [st.excedentes EXCEPT ![i].excedente_disponible = @ - cantidad_int * Unit],
              faltantes |->
                 [st.faltantes EXCEPT ![j].faltante = @ - cantidad_int * Unit],
              transfers |-> Append(st.transfers,
                 NewTransfer(exc.stock_level, fal.stock_level, cantidad_int,
                             exc.stock_level.stock_actual - cantidad_int * Unit,
                             fal.stock_objetivo))]

\* `for fal in faltantes:` for the surplus entry i, from deficit entry j on.
RECURSIVE PairFaltantes(_, _, _)
PairFaltantes(st, i, j) ==
    IF j > Len(st.faltantes) THEN st
    ELSE IF st.faltantes[j].faltante <= 0 THEN PairFaltantes(st, i, j + 1)
    ELSE IF st.excedentes[i].excedente_disponible <= 0 THEN st
    ELSE PairFaltantes(PairTransfer(st, i, j), i, j + 1)

\* PairExcedentes that stops after the first surplus entry.
PairExcedentesFirstOnly(st, i) ==
    IF i > Len(st.excedentes) THEN st
    ELSE PairFaltantes(st, i, 1)

\* `for exc in excedentes:`
RECURSIVE PairExcedentes(_, _)
PairExcedentes(st, i) ==
    IF i > Len(st.excedentes) THEN st
    ELSE IF st.excedentes[i].excedente_disponible <= 0 THEN PairExcedentes(st, i + 1)
    ELSE PairExcedentes(PairFaltantes(st, i, 1), i + 1)

\* The body of `for product_id, deposits_data in products_by_id.items()`:
\* the matching state of one product after its loops, starting from the
\* transfers of the products before it.
RedistributeProduct(transfers, deposits, level) ==
    PairExcedentes([excedentes |-> SortedExcedentes(deposits),
                    faltantes  |-> SortedFaltantes(deposits, level),
                    transfers  |-> transfers], 1)

RECURSIVE RedistributeProducts(_, _, _, _)
RedistributeProducts(transfers, grouped, i, level) ==
    IF i > Len(grouped) THEN transfers
    ELSE RedistributeProducts(
             RedistributeProduct(transfers, grouped[i].deposits, level).transfers,
             grouped, i + 1, level)

ProductIdOf(t) == t.product_id
OrigenNombre(t) == t.deposit_origen_nombre
DestinoNombre(t) == t.deposit_destino_nombre
Range(s) == {s[i] : i \in 1..Len(s)}

\* RedistributionOf that reports the purchase needs generate_distribution
\* raises for the same rows.
RedistributionOfWithNeeds(levels, level, exd) ==
    LET grouped == GroupByProduct(FilteredLevels(levels, exd, {}))
        transfers == RedistributeProducts(<<>>, grouped, 1, level)
    IN  [op             |-> "generate_excess_redistribution",
         transfers      |-> transfers,
         purchase_needs |-> DistributionOf(levels, level, exd, {}).purchase_needs,
         summary        |->
            [total_transfers         |-> Len(transfers),
             total_units_to_transfer |-> SumSeq(MapSeq(transfers, CantidadTransferir)),
             unique_products         |-> Cardinality(Range(MapSeq(transfers, ProductIdOf))),
             origen_deposits         |-> Cardinality(Range(MapSeq(transfers, OrigenNombre))),
             destino_deposits        |-> Cardinality(Range(MapSeq(transfers, DestinoNombre)))]]

\* DistributionService.generate_excess_redistribution as a function of its
\* arguments.
RedistributionOf(levels, level, exd) ==
    LET grouped == GroupByProduct(FilteredLevels(levels, exd, {}))
        transfers == RedistributeProducts(<<>>, grouped, 1, level)
    IN  [op             |-> "generate_excess_redistribution",
         transfers      |-> transfers,
         purchase_needs |-> <<>>,
         summary        |->
            [total_transfers         |-> Len(transfers),
             total_units_to_transfer |-> SumSeq(MapSeq(transfers, CantidadTransferir)),
             unique_products         |-> Cardinality(Range(MapSeq(transfers, ProductIdOf))),
             origen_deposits         |-> Cardinality(Range(MapSeq(transfers, OrigenNombre))),
             destino_deposits        |-> Cardinality(Range(MapSeq(transfers, DestinoNombre)))]]

----------------------------------------------------------------------------
(* Inputs of the allocation engine *)

\* Number of sucursal rows of the product under allocation.
MaxPeers == 2

PeerNames == <<"SUCURSAL A", "SUCURSAL B", "SUCURSAL C", "SUCURSAL D">>

\* stock_actual of a row, in hundredths: negative, zero, halves and wholes.
StockValues == {-100, 0, 50, 250, 400}

\* <<stock_minimo, stock_ideal, stock_maximo>> of a row, in hundredths: the
\* suppressed row and a row with factor_ideal 2 and factor_maximo 4.
Targets == {<<0, 0, 0>>, <<50, 100, 200>>}

MarcaOf(product_id) == IF product_id = 1 THEN "MARCA 1" ELSE "MARCA 2"

NewStockLevel(product_id, deposito_nombre, stock_actual, t) ==
    [product_id      |-> product_id,
     deposito_nombre |-> deposito_nombre,
     marca           |-> MarcaOf(product_id),
     stock_actual    |-> stock_actual,
     stock_minimo    |-> t[1],
     stock_ideal     |-> t[2],
     stock_maximo    |-> t[3]]

RowValues == StockValues \X Targets

\* The rows of product 1: an optional central row and MaxPeers sucursales.
CentralRows ==
    {<<>>} \cup {<<NewStockLevel(1, CENTRAL_DEPOSIT_NAME, v[1], v[2])>> : v \in RowValues}

PeerRows ==
    {[k \in 1..MaxPeers |-> NewStockLevel(1, PeerNames[k], f[k][1], f[k][2])] :
        f \in [1..MaxPeers -> RowValues]}

\* The rows of product 2: none, or one sucursal in deficit and no central row.
OtherProductRows ==
    {<<>>, <<NewStockLevel(2, PeerNames[1], 0, <<50, 100, 200>>)>>}

StockLevelLists ==
    {c \o p \o o : c \in CentralRows, p \in PeerRows, o \in OtherProductRows}

\* <<excluded_deposits, excluded_brands>> of a generate_distribution call.
Exclusions == {<<{}, {}>>, <<{PeerNames[1]}, {MarcaOf(2)}>>}

EmptyResult == [op |-> "none", transfers |-> <<>>, purchase_needs |-> <<>>,
                summary |-> <<>>]

----------------------------------------------------------------------------
(* The allocation engine as a state machine *)

\* DuxAPIClient.__init__: the statistics and the rate limiter of a new client.
NewStats ==
    [total_requests      |-> 0,
     successful_requests |-> 0,
     failed_requests     |-> 0,
     rate_limit_errors   |-> 0,
     retries             |-> 0]

\* A client that is not asked anything.
IdleClient ==
    /\ max_retries = 0
    /\ retry_count = 0
    /\ request_state = "idle"
    /\ outcomes = <<>>
    /\ stats = NewStats
    /\ consecutive_429_errors = 0

InitDistribution ==
    /\ stock_levels \in StockLevelLists
    /\ target_level = "ideal"
    /\ excluded_deposits = {}
    /\ excluded_brands = {}
    /\ result = EmptyResult
    /\ system_config = <<>>
    /\ global_config = <<>>
    /\ config_cache = <<>>
    /\ subrubro_thresholds = <<>>
    /\ products_stock = <<>>
    /\ forecasts = <<>>
    /\ results = <<>>
    /\ sales_history = <<>>
    /\ days_back = 0
    /\ metodo_preferido = "mediana"
    /\ forecast_result = <<>>
    /\ selection_args = <<>>
    /\ selection_result = <<>>
    /\ IdleClient

GenerateDistribution ==
    \E level \in TargetLevels, ex \in Exclusions :
        /\ target_level' = level
        /\ excluded_deposits' = ex[1]
        /\ excluded_brands' = ex[2]
        /\ result' = DistributionOf(stock_levels, level, ex[1], ex[2])
        /\ UNCHANGED stock_levels
        /\ UNCHANGED calcVars
        /\ UNCHANGED forecastVars
        /\ UNCHANGED requestVars

GenerateExcessRedistribution ==
    \E level \in TargetLevels, exd \in {ex[1] : ex \in Exclusions} :
        /\ target_level' = level
        /\ excluded_deposits' = exd
        /\ excluded_brands' = {}
        /\ result' = RedistributionOf(stock_levels, level, exd)
        /\ UNCHANGED stock_levels
        /\ UNCHANGED calcVars
        /\ UNCHANGED forecastVars
        /\ UNCHANGED requestVars

NextDistribution == GenerateDistribution \/ GenerateExcessRedistribution

SpecDistribution == InitDistribution /\ [][NextDistribution]_vars

----------------------------------------------------------------------------
(* Properties of the allocation engine *)

IsDistribution == result.op = "generate_distribution"
IsRedistribution == result.op = "generate_excess_redistribution"

\* The products of the last call with their rows, after its exclusion filters.
Grouped == GroupByProduct(FilteredLevels(stock_levels, excluded_deposits, excluded_brands))

HasCentral(g) == \E k \in 1..Len(g.deposits) : IsCentral(g.deposits[k])
CentralOf(g) == SelectSeq(g.deposits, IsCentral)[1]
SucursalesOf(g) == SelectSeq(g.deposits, IsSucursal)

TransfersOf(product_id) ==
    SelectSeq(result.transfers, LAMBDA t : t.product_id = product_id)

\* The purchase needs raised for the sucursales of a product.
PeerNeedsOf(product_id) ==
    SelectSeq(result.purchase_needs,
              LAMBDA n : /\ n.product_id = product_id
                         /\ n.origen_necesidad \in {"Sucursal sin cobertura",
                                                    "Central sin stock"})

UnitsTransferred(product_id) == SumSeq(MapSeq(TransfersOf(product_id), CantidadTransferir))
UnitsNeeded(product_id) == SumSeq(MapSeq(PeerNeedsOf(product_id), CantidadNecesaria))

\* The deficit of a sucursal in whole units: target minus available stock,
\* rounded to a unit, counted only when positive.
PeerDeficit(sl) ==
    LET d == RoundToUnit(StockObjetivo(sl, target_level) - sl.stock_actual)
    IN  IF d > 0 THEN d ELSE 0

TotalPeerDeficit(g) == SumSeq(MapSeq(SucursalesOf(g), PeerDeficit))

\* available_at_central, in hundredths.
AvailableAtCentral(g) == Max(0, CentralOf(g).stock_actual - CentralOf(g).stock_minimo)

\* C1: central distribution conserves the deficits of the sucursales: for
\* every product with a central row, the units transferred plus the units of
\* the purchase needs tagged 'Sucursal sin cobertura' or 'Central sin stock'
\* equal the sum of the rounded positive deficits of its sucursales.
C1_Conservation ==
    IsDistribution =>
        \A i \in 1..Len(Grouped) :
            HasCentral(Grouped[i]) =>
                UnitsTransferred(Grouped[i].product_id) + UnitsNeeded(Grouped[i].product_id)
                    = TotalPeerDeficit(Grouped[i])

\* A call after which one deficit is split into a transfer of at least one
\* unit and a purchase need for the rest.
C1_Witness ==
    /\ IsDistribution
    /\ \E k \in 1..Len(result.purchase_needs) :
          /\ result.purchase_needs[k].origen_necesidad = "Sucursal sin cobertura"
          /\ result.purchase_needs[k].cantidad_necesaria >= 1
    /\ \E k \in 1..Len(result.transfers) : result.transfers[k].cantidad_transferir >= 1

\* C2: for every product, the units transferred by generate_distribution
\* never exceed available_at_central = max(0, central stock - central minimum).
C2_WithinAvailable ==
    IsDistribution =>
        \A i \in 1..Len(Grouped) :
            HasCentral(Grouped[i]) =>
                UnitsTransferred(Grouped[i].product_id) * Unit <= AvailableAtCentral(Grouped[i])

\* A call that hands out all the whole units of a pool that is not a whole
\* number of units, to two sucursales.
C2_Witness ==
    /\ IsDistribution
    /\ Len(result.transfers) >= 2
    /\ \E i \in 1..Len(Grouped) :
          /\ HasCentral(Grouped[i])
          /\ AvailableAtCentral(Grouped[i]) % Unit # 0
          /\ UnitsTransferred(Grouped[i].product_id) = AvailableAtCentral(Grouped[i]) \div Unit

\* C3: every TransferProposal of either allocation algorithm moves at least
\* one unit.
C3_TransferAtLeastOne ==
    \A k \in 1..Len(result.transfers) : result.transfers[k].cantidad_transferir >= 1

\* The surplus and deficit rows of a product as the redistribution classifies
\* them, and their total amounts in hundredths.
DisposableSurplus(sl) == sl.stock_actual - sl.stock_ideal
NeededAmount(sl) == StockObjetivo(sl, target_level) - sl.stock_actual
IsDeficitRow(sl) == IsFaltante(sl, target_level)
TotalSurplus(g) == SumSeq(MapSeq(SelectSeq(g.deposits, IsExcedente), DisposableSurplus))
TotalDeficit(g) == SumSeq(MapSeq(SelectSeq(g.deposits, IsDeficitRow), NeededAmount))

\* C4: in peer redistribution the units transferred for a product are at most
\* min(total surplus, total deficit) of that product.
C4_WithinSurplusAndDeficit ==
    IsRedistribution =>
        \A i \in 1..Len(Grouped) :
            UnitsTransferred(Grouped[i].product_id) * Unit
                <= Min(TotalSurplus(Grouped[i]), TotalDeficit(Grouped[i]))

\* C5: no transfer of the redistribution has the same location as source and
\* destination, and no row is classified as both surplus and deficit.
C5_SourceIsNotDestination ==
    IsRedistribution =>
        /\ \A k \in 1..Len(result.transfers) :
              result.transfers[k].deposit_origen_nombre
                  # result.transfers[k].deposit_destino_nombre
        /\ \A i \in 1..Len(Grouped) : \A k \in 1..Len(Grouped[i].deposits) :
              ~(IsExcedente(Grouped[i].deposits[k]) /\ IsDeficitRow(Grouped[i].deposits[k]))

\* A redistribution that moves stock between two locations.
C5_Witness ==
    /\ IsRedistribution
    /\ Len(result.transfers) >= 1

\* The outcome the per-peer rule gives for the sucursales k.. of a product,
\* with `pool` hundredths left at the central: acc is [transfers, needs], the
\* transfers as <<destination, hundredths>> and the purchase needs as
\* <<destination, hundredths, cause>>.  Transfers are whole units
\* (cantidad_transferir is an int), so the transfer of a remaining pool is
\* `part`, the whole units in it.
RECURSIVE RuleOutcome(_, _, _, _)
RuleOutcome(sucursales, k, pool, acc) ==
    IF k > Len(sucursales) THEN acc
    ELSE LET dest == sucursales[k].deposito_nombre
             d    == PeerDeficit(sucursales[k]) * Unit
             part == (pool \div Unit) * Unit
         IN  IF d = 0 THEN RuleOutcome(sucursales, k + 1, pool, acc)
             ELSE IF pool >= d THEN
                 RuleOutcome(sucursales, k + 1, pool - d,
                     [acc EXCEPT !.transfers = Append(@, <<dest, d>>)])
             ELSE IF pool > 0 THEN
                 RuleOutcome(sucursales, k + 1, 0,
                     [transfers |-> Append(acc.transfers, <<dest, part>>),
                      needs |-> Append(acc.needs,
                                       <<dest, d - part, "Sucursal sin cobertura">>)])
             ELSE
                 RuleOutcome(sucursales, k + 1, 0,
                     [acc EXCEPT !.needs = Append(@, <<dest, d, "Central sin stock">>)])

TransferOutcome(t) == <<t.deposit_destino_nombre, t.cantidad_transferir * Unit>>
NeedOutcome(n) == <<n.deposit_destino_nombre, n.cantidad_necesaria * Unit, n.origen_necesidad>>

\* The transfers and sucursal purchase needs of the last call for a product.
ActualOutcome(product_id) ==
    [transfers |-> MapSeq(TransfersOf(product_id), TransferOutcome),
     needs     |-> MapSeq(PeerNeedsOf(product_id), NeedOutcome)]

FollowsRule ==
    IsDistribution =>
        \A i \in 1..Len(Grouped) :
            HasCentral(Grouped[i]) =>
                ActualOutcome(Grouped[i].product_id)
                    = RuleOutcome(SucursalesOf(Grouped[i]), 1, AvailableAtCentral(Grouped[i]),
                                  [transfers |-> <<>>, needs |-> <<>>])

\* The scenario of the claim: central stock 120 with minimum 50, sucursal A
\* 40 short of its ideal, then sucursal B 50 short.
ScenarioLevels ==
    <<NewStockLevel(1, CENTRAL_DEPOSIT_NAME, 12000, <<5000, 10000, 20000>>),
      NewStockLevel(1, PeerNames[1], 0, <<2000, 4000, 8000>>),
      NewStockLevel(1, PeerNames[2], 0, <<2500, 5000, 10000>>)>>

ScenarioResult == DistributionOf(ScenarioLevels, "ideal", {}, {})

ScenarioAsClaimed ==
    /\ MapSeq(ScenarioResult.transfers, TransferOutcome)
          = <<<<PeerNames[1], 40 * Unit>>, <<PeerNames[2], 30 * Unit>>>>
    /\ MapSeq(ScenarioResult.purchase_needs, NeedOutcome)
          = <<<<PeerNames[2], 20 * Unit, "Sucursal sin cobertura">>>>

SurplusEntry(sl) == [row |-> sl, amount |-> DisposableSurplus(sl)]
DeficitEntry(sl) == [row |-> sl, amount |-> NeededAmount(sl)]
SurplusEntries(g) == MapSeq(SelectSeq(g.deposits, IsExcedente), SurplusEntry)
DeficitEntries(g) == MapSeq(SelectSeq(g.deposits, IsDeficitRow), DeficitEntry)

\* The first entry with the largest amount.
FirstLargest(entries) ==
    CHOOSE i \in 1..Len(entries) :
        /\ \A j \in 1..Len(entries) : entries[j].amount <= entries[i].amount
        /\ \A j \in 1..(i - 1) : entries[j].amount < entries[i].amount

WithoutEntry(entries, i) ==
    [k \in 1..(Len(entries) - 1) |-> IF k < i THEN entries[k] ELSE entries[k + 1]]

\* The entries in descending order of amount, ties in input order.
RECURSIVE StableDescending(_)
StableDescending(entries) ==
    IF entries = <<>> THEN <<>>
    ELSE <<entries[FirstLargest(entries)]>>
             \o StableDescending(WithoutEntry(entries, FirstLargest(entries)))

\* What one pairing moves, in hundredths, of a remaining surplus and a
\* remaining deficit: their minimum, or with `rounded` the minimum rounded to
\* a unit, nothing when that is less than one unit.
PairingAmount(surplus, deficit, rounded) ==
    IF ~rounded THEN Min(surplus, deficit)
    ELSE IF RoundToUnit(Min(surplus, deficit)) < 1 THEN 0
    ELSE RoundToUnit(Min(surplus, deficit)) * Unit

\* The greedy matching from surplus entry i and deficit entry j on: the
\* transfers as <<origin, destination, hundredths>>.
RECURSIVE GreedyMatching(_, _, _, _, _, _)
GreedyMatching(surplus, deficit, i, j, acc, rounded) ==
    IF i > Len(surplus) THEN acc
    ELSE IF j > Len(deficit) THEN GreedyMatching(surplus, deficit, i + 1, 1, acc, rounded)
    ELSE LET q == IF surplus[i].amount > 0 /\ deficit[j].amount > 0
                  THEN PairingAmount(surplus[i].amount, deficit[j].amount, rounded)
                  ELSE 0
         IN  IF q = 0 THEN GreedyMatching(surplus, deficit, i, j + 1, acc, rounded)
             ELSE GreedyMatching([surplus EXCEPT ![i].amount = @ - q],
                                 [deficit EXCEPT ![j].amount = @ - q],
                                 i, j + 1,
                                 Append(acc, <<surplus[i].row.deposito_nombre,
                                               deficit[j].row.deposito_nombre, q>>),
                                 rounded)

MatchingOutcome(t) ==
    <<t.deposit_origen_nombre, t.deposit_destino_nombre, t.cantidad_transferir * Unit>>

IsGreedyMatching(rounded) ==
    IsRedistribution =>
        \A i \in 1..Len(Grouped) :
            MapSeq(TransfersOf(Grouped[i].product_id), MatchingOutcome)
                = GreedyMatching(StableDescending(SurplusEntries(Grouped[i])),
                                 StableDescending(DeficitEntries(Grouped[i])),
                                 1, 1, <<>>, rounded)

\* The scenario of the claim: X has a disposable surplus of 15, Y is 10 short
\* of its ideal and Z is 20 short.
MatchingScenarioLevels ==
    <<NewStockLevel(1, "X", 2500, <<500, 1000, 2000>>),
      NewStockLevel(1, "Y", 1000, <<1000, 2000, 4000>>),
      NewStockLevel(1, "Z", 1000, <<1500, 3000, 6000>>)>>

MatchingScenarioResult == RedistributionOf(MatchingScenarioLevels, "ideal", {})

MatchingScenarioAsClaimed ==
    /\ MapSeq(MatchingScenarioResult.transfers, MatchingOutcome) = <<<<"X", "Z", 15 * Unit>>>>
    /\ MatchingScenarioResult.purchase_needs = <<>>
    /\ StockObjetivo(MatchingScenarioLevels[3], "ideal") - MatchingScenarioLevels[3].stock_actual
          - MatchingScenarioResult.transfers[1].cantidad_transferir * Unit = 5 * Unit

\* C11 as stated: peer redistribution is the stable descending greedy
\* matching in which each pairing transfers min(remaining surplus, remaining
\* deficit) and decrements both; surplus X = 15 with deficits Y = 10 and
\* Z = 20 gives one transfer X to Z of 15, nothing for Y, Z left 5 short.
C11_GreedyMatching_AsStated == IsGreedyMatching(FALSE) /\ MatchingScenarioAsClaimed

\* C11 amended: peer redistribution is the stable descending greedy matching
\* in which each pairing transfers min(remaining surplus, remaining deficit)
\* rounded to the nearest unit (a half to the even unit), nothing when that is
\* less than one unit, and decrements both by the units transferred; surplus
\* X = 15 with deficits Y = 10 and Z = 20 gives one transfer X to Z of 15,
\* nothing for Y, Z left 5 short.
C11_GreedyMatching == IsGreedyMatching(TRUE) /\ MatchingScenarioAsClaimed

\* A redistribution with two deficit rows of the same amount in which the
\* surplus reaches only one of them.
C11_Witness ==
    /\ IsRedistribution
    /\ \E i \in 1..Len(Grouped) :
          LET deficit == DeficitEntries(Grouped[i])
          IN  /\ Len(deficit) = 2
              /\ deficit[1].amount = deficit[2].amount
              /\ Len(TransfersOf(Grouped[i].product_id)) = 1
              /\ TransfersOf(Grouped[i].product_id)[1].deposit_destino_nombre
                    = deficit[1].row.deposito_nombre

\* The purchase needs of the last call raised for the central of a product.
CentralNeedsOf(product_id) ==
    SelectSeq(result.purchase_needs,
              LAMBDA n : /\ n.product_id = product_id
                         /\ n.origen_necesidad = "Central bajo mínimo")

CentralBelowMinimum(g) == CentralOf(g).stock_actual < CentralOf(g).stock_minimo

\* What the central lacks to reach the target of the selected level, rounded
\* to a unit.
CentralShortfall(g) ==
    RoundToUnit(StockObjetivo(CentralOf(g), target_level) - CentralOf(g).stock_actual)

OneCentralNeed(g) ==
    /\ Len(CentralNeedsOf(g.product_id)) = 1
    /\ CentralNeedsOf(g.product_id)[1].deposit_destino_nombre = CENTRAL_DEPOSIT_NAME
    /\ CentralNeedsOf(g.product_id)[1].cantidad_necesaria = CentralShortfall(g)

NeedsOf(product_id) ==
    SelectSeq(result.purchase_needs, LAMBDA n : n.product_id = product_id)

\* The product ids of the last call that have a central row after its filters.
ProductsWithCentral == {Grouped[i].product_id : i \in {k \in 1..Len(Grouped) : HasCentral(Grouped[k])}}

\* The rows of the last call, after its filters, of the products that have a
\* central row.
LevelsWithCentral ==
    SelectSeq(FilteredLevels(stock_levels, excluded_deposits, excluded_brands),
              LAMBDA sl : sl.product_id \in ProductsWithCentral)

\* C13: in generate_distribution a product with no central row after the
\* exclusion filters gets no transfer and no purchase need, the call returns
\* its result, and the other products get what they get without that product.
C13_MissingCentral ==
    IsDistribution =>
        /\ \A i \in 1..Len(Grouped) :
              ~HasCentral(Grouped[i]) =>
                  /\ TransfersOf(Grouped[i].product_id) = <<>>
                  /\ NeedsOf(Grouped[i].product_id) = <<>>
        /\ result.transfers
              = DistributionOf(LevelsWithCentral, target_level, {}, {}).transfers
        /\ result.purchase_needs
              = DistributionOf(LevelsWithCentral, target_level, {}, {}).purchase_needs

\* A call with a product that has a sucursal in deficit and no central row,
\* and another product that gets a transfer and a purchase need.
C13_Witness ==
    /\ IsDistribution
    /\ \E i \in 1..Len(Grouped) :
          /\ ~HasCentral(Grouped[i])
          /\ \E k \in 1..Len(Grouped[i].deposits) : PeerDeficit(Grouped[i].deposits[k]) > 0
    /\ \E i \in 1..Len(Grouped) :
          /\ HasCentral(Grouped[i])
          /\ TransfersOf(Grouped[i].product_id) # <<>>
          /\ NeedsOf(Grouped[i].product_id) # <<>>

\* C14: the result of generate_excess_redistribution has an empty
\* purchase_needs list for every input, deficits left uncovered included.
C14_NoPurchaseNeeds == IsRedistribution => result.purchase_needs = <<>>

\* A redistribution that leaves a deficit row without any transfer while
\* another row of the product gets one.
C14_Witness ==
    /\ IsRedistribution
    /\ \E i \in 1..Len(Grouped) :
          /\ TransfersOf(Grouped[i].product_id) # <<>>
          /\ \E k \in 1..Len(Grouped[i].deposits) :
                /\ IsDeficitRow(Grouped[i].deposits[k])
                /\ \A t \in 1..Len(result.transfers) :
                      result.transfers[t].deposit_destino_nombre
                          # Grouped[i].deposits[k].deposito_nombre

\* An amount in hundredths whose fractional part is exactly half a unit, and
\* the next higher whole number of units.
IsHalf(x) == x > 0 /\ x % Unit = Unit \div 2
HalfUp(x) == x \div Unit + 1

\* The units the last call allots to a sucursal of a product: transferred to
\* it plus asked for it.
UnitsAllottedTo(product_id, deposito_nombre) ==
    SumSeq(MapSeq(SelectSeq(TransfersOf(product_id),
                            LAMBDA t : t.deposit_destino_nombre = deposito_nombre),
                  CantidadTransferir))
    + SumSeq(MapSeq(SelectSeq(PeerNeedsOf(product_id),
                              LAMBDA n : n.deposit_destino_nombre = deposito_nombre),
                    CantidadNecesaria))

\* C15: allocation rounds halves up.  In generate_distribution a sucursal
\* whose deficit has fractional part exactly 0.5 is allotted the next higher
\* integer, and so is a central below its minimum; in
\* generate_excess_redistribution a single pairing whose transferable amount
\* has fractional part exactly 0.5 moves the next higher integer.
C15_HalvesRoundUp ==
    /\ IsDistribution =>
          \A i \in 1..Len(Grouped) :
              HasCentral(Grouped[i]) =>
                  /\ \A k \in 1..Len(SucursalesOf(Grouped[i])) :
                        LET sl == SucursalesOf(Grouped[i])[k]
                        IN  IsHalf(NeededAmount(sl)) =>
                                UnitsAllottedTo(sl.product_id, sl.deposito_nombre)
                                    = HalfUp(NeededAmount(sl))
                  /\ (CentralBelowMinimum(Grouped[i])
                          /\ IsHalf(NeededAmount(CentralOf(Grouped[i])))) =>
                        /\ Len(CentralNeedsOf(Grouped[i].product_id)) = 1
                        /\ CentralNeedsOf(Grouped[i].product_id)[1].cantidad_necesaria
                              = HalfUp(NeededAmount(CentralOf(Grouped[i])))
    /\ IsRedistribution =>
          \A i \in 1..Len(Grouped) :
              LET surplus == SurplusEntries(Grouped[i])
                  deficit == DeficitEntries(Grouped[i])
              IN  (Len(surplus) = 1 /\ Len(deficit) = 1
                      /\ IsHalf(Min(surplus[1].amount, deficit[1].amount))) =>
                      /\ Len(TransfersOf(Grouped[i].product_id)) = 1
                      /\ TransfersOf(Grouped[i].product_id)[1].cantidad_transferir
                            = HalfUp(Min(surplus[1].amount, deficit[1].amount))

----------------------------------------------------------------------------
(* Stock calculator: configuration *)

\* demanda_diaria is counted in ten-thousandths of a unit per day.
DemandUnit == 10000
\* factor_ideal and factor_maximo are counted in tenths.
FactorUnit == 10
\* The unrounded stock_minimo, stock_ideal and stock_maximo are counted in
\* 1/RawUnit of a unit: a daily demand times a number of days times a factor.
RawUnit == DemandUnit * FactorUnit
RawPerHundredth == RawUnit \div Unit

\* Settings (app/core/config.py)
default_stock_days == 30
factor_ideal == 20
factor_maximo == 40
sales_period_days == 365
min_sales_threshold == 5

\* A row key of system_config is <<prefix, rest>>: 'dias_stock_marca_ROYAL' is
\* <<"dias_stock_marca_", "ROYAL">>, 'factor_ideal' is <<"factor_ideal", "">>.
Key(prefix, rest) == <<prefix, rest>>
HasKey(table, key) == key \in DOMAIN table

\* SELECT key, value FROM system_config WHERE key LIKE '<prefix>%', as the
\* set of names left by row[0].replace('<prefix>', '').
NamesWithPrefix(table, prefix) == {key[2] : key \in {k \in DOMAIN table : k[1] = prefix}}

\* str.upper() on the names of brands, categories and subcategories in use.
Upper(name) ==
    CASE name = "Royal" -> "ROYAL"
      [] name = "Alimento" -> "ALIMENTO"
      [] name = "Perro" -> "PERRO"
      [] OTHER -> name

\* self.global_config after the first two statements of _load_configurations:
\* the settings, overridden by the rows of system_config.
LoadGlobalConfig(table) ==
    LET Value(name, default) ==
            IF HasKey(table, Key(name, "")) THEN table[Key(name, "")] ELSE default
    IN  [dias_stock_default   |-> Value("dias_stock_default", default_stock_days),
         factor_ideal         |-> Value("factor_ideal", factor_ideal),
         factor_maximo        |-> Value("factor_maximo", factor_maximo),
         periodo_ventas_dias  |-> Value("periodo_ventas_dias", sales_period_days),
         umbral_minimo_ventas |-> Value("umbral_minimo_ventas", min_sales_threshold)]

\* self.config_cache after the three loops over 'dias_stock_marca_%',
\* 'dias_stock_rubro_%' and 'dias_stock_subrubro_%': the entries of the table
\* are written over the cache, which is not emptied first.
LoadConfigCache(table, cache) ==
    LET Entries(db_prefix, cache_prefix) ==
            {<<Key(cache_prefix, Upper(n)), table[Key(db_prefix, n)]>> :
                n \in NamesWithPrefix(table, db_prefix)}
        loaded == Entries("dias_stock_marca_", "marca_")
                  \cup Entries("dias_stock_rubro_", "rubro_")
                  \cup Entries("dias_stock_subrubro_", "subrubro_")
        keys == {e[1] : e \in loaded}
    IN  [k \in DOMAIN cache \cup keys |->
            IF k \in keys THEN (CHOOSE e \in loaded : e[1] = k)[2] ELSE cache[k]]

\* self.subrubro_thresholds = {} and the loop over 'umbral_subrubro_%'.
LoadSubrubroThresholds(table) ==
    [n \in NamesWithPrefix(table, "umbral_subrubro_") |-> table[Key("umbral_subrubro_", n)]]

\* GetDiasStock that looks the category up before the subcategory.
GetDiasStockRubroFirst(marca, rubro, subrubro, cache, global) ==
    IF marca # "" /\ HasKey(cache, Key("marca_", Upper(marca)))
    THEN cache[Key("marca_", Upper(marca))]
    ELSE IF rubro # "" /\ HasKey(cache, Key("rubro_", Upper(rubro)))
    THEN cache[Key("rubro_", Upper(rubro))]
    ELSE IF subrubro # "" /\ HasKey(cache, Key("subrubro_", Upper(subrubro)))
    THEN cache[Key("subrubro_", Upper(subrubro))]
    ELSE global.dias_stock_default

\* _get_dias_stock: brand, then subcategory, then category, then default.
GetDiasStock(marca, rubro, subrubro, cache, global) ==
    IF marca # "" /\ HasKey(cache, Key("marca_", Upper(marca)))
    THEN cache[Key("marca_", Upper(marca))]
    ELSE IF subrubro # "" /\ HasKey(cache, Key("subrubro_", Upper(subrubro)))
    THEN cache[Key("subrubro_", Upper(subrubro))]
    ELSE IF rubro # "" /\ HasKey(cache, Key("rubro_", Upper(rubro)))
    THEN cache[Key("rubro_", Upper(rubro))]
    ELSE global.dias_stock_default

\* GetUmbralMinimo without the lookup by subcategory.
GetUmbralMinimoGlobalOnly(subrubro, thresholds, global) == global.umbral_minimo_ventas

\* _get_umbral_minimo: the threshold of the subcategory, else the global one.
GetUmbralMinimo(subrubro, thresholds, global) ==
    IF subrubro # "" /\ subrubro \in DOMAIN thresholds
    THEN thresholds[subrubro]
    ELSE global.umbral_minimo_ventas

----------------------------------------------------------------------------
(* Stock calculator: one StockLevel *)

\* round(x, 2) of a value in 1/RawUnit, as hundredths.  tie_up decides a value
\* exactly halfway between two hundredths.
Round2(x, tie_up) ==
    LET q == x \div RawPerHundredth
        r == x % RawPerHundredth
    IN  IF 2 * r < RawPerHundredth THEN q
        ELSE IF 2 * r > RawPerHundredth THEN q + 1
        ELSE IF tie_up THEN q + 1 ELSE q

\* RawTargets with the two factors exchanged.
RawTargetsSwapped(forecast, dias_stock, umbral_minimo, global) ==
    IF forecast.ventas_365_dias < umbral_minimo
    THEN [stock_minimo |-> 0, stock_ideal |-> 0, stock_maximo |-> 0]
    ELSE LET stock_minimo == forecast.demanda_diaria * dias_stock
         IN  [stock_minimo |-> stock_minimo * FactorUnit,
              stock_ideal  |-> stock_minimo * global.factor_maximo,
              stock_maximo |-> stock_minimo * global.factor_ideal]

\* The three targets before rounding, in 1/RawUnit.
RawTargets(forecast, dias_stock, umbral_minimo, global) ==
    IF forecast.ventas_365_dias < umbral_minimo
    THEN [stock_minimo |-> 0, stock_ideal |-> 0, stock_maximo |-> 0]
    ELSE LET stock_minimo == forecast.demanda_diaria * dias_stock
         IN  [stock_minimo |-> stock_minimo * FactorUnit,
              stock_ideal  |-> stock_minimo * global.factor_ideal,
              stock_maximo |-> stock_minimo * global.factor_maximo]

\* `# Determinar estado`: on the unrounded targets t and stock_actual in
\* hundredths.
Estado(stock_actual, t) ==
    LET actual == stock_actual * RawPerHundredth
    IN  IF t.stock_minimo = 0
        THEN (IF actual <= 0 THEN "sin_stock" ELSE "ok")
        ELSE IF actual <= 0 THEN "sin_stock"
        ELSE IF actual < t.stock_minimo THEN "bajo_minimo"
        ELSE IF actual > t.stock_maximo THEN "excedente"
        ELSE "ok"

\* The StockLevel appended for the row ps of products_stock.  ties gives, for
\* each of the three round(x, 2), the neighbour a halfway value goes to; equal
\* floats round alike.
StockLevelOf(ps, forecast, cache, thresholds, global, ties) ==
    LET dias_stock    == GetDiasStock(ps.marca, ps.rubro, ps.subrubro, cache, global)
        umbral_minimo == GetUmbralMinimo(ps.subrubro, thresholds, global)
        t             == RawTargets(forecast, dias_stock, umbral_minimo, global)
        tie_ideal     == IF t.stock_ideal = t.stock_minimo THEN ties.minimo ELSE ties.ideal
        tie_maximo    == IF t.stock_maximo = t.stock_minimo THEN ties.minimo
                         ELSE IF t.stock_maximo = t.stock_ideal THEN tie_ideal
                         ELSE ties.maximo
    IN  [product_id      |-> ps.product_id,
         deposito_nombre |-> ps.deposito_nombre,
         marca           |-> ps.marca,
         rubro           |-> ps.rubro,
         subrubro        |-> ps.subrubro,
         stock_actual    |-> ps.stock_disponible,
         stock_minimo    |-> Round2(t.stock_minimo, ties.minimo),
         stock_ideal     |-> Round2(t.stock_ideal, tie_ideal),
         stock_maximo    |-> Round2(t.stock_maximo, tie_maximo),
         demanda_diaria  |-> forecast.demanda_diaria,
         dias_cobertura  |-> dias_stock,
         ventas_365_dias |-> forecast.ventas_365_dias,
         estado          |-> Estado(ps.stock_disponible, t)]

----------------------------------------------------------------------------
(* Inputs of the stock calculator *)

\* Largest ventas_365_dias of a forecast.
MaxVentas == 11

Optional(key, values) == {<<>>} \cup {[k \in {key} |-> v] : v \in values}

\* The tables system_config: every key is absent or holds one of its values.
SystemConfigs ==
    {fi @@ fm @@ dm @@ ds @@ dr @@ us :
        fi \in Optional(Key("factor_ideal", ""), {10, 50}),
        fm \in Optional(Key("factor_maximo", ""), {5, 10}),
        dm \in Optional(Key("dias_stock_marca_", "ROYAL"), {1}),
        ds \in Optional(Key("dias_stock_subrubro_", "ALIMENTO"), {7}),
        dr \in Optional(Key("dias_stock_rubro_", "PERRO"), {15}),
        us \in Optional(Key("umbral_subrubro_", "ALIMENTO"), {10})}

\* The rows of products_stock: one product at one deposit.
ProductStockRows ==
    {[product_id       |-> 1,
      deposito_nombre  |-> PeerNames[1],
      marca            |-> m,
      rubro            |-> "Perro",
      subrubro         |-> sr,
      stock_disponible |-> sd] :
        m \in {"", "Royal"}, sr \in {"", "ALIMENTO"}, sd \in {-100, 0, 100, 5000}}

\* The ForecastResult of the row: daily demand and the sales of the period.
Forecasts ==
    {[demanda_diaria |-> d, ventas_365_dias |-> v] :
        d \in {0, 27, 50, 3333}, v \in 0..MaxVentas}

Ties == [minimo : BOOLEAN, ideal : BOOLEAN, maximo : BOOLEAN]

----------------------------------------------------------------------------
(* The stock calculator as a state machine *)

InitStock ==
    /\ system_config \in SystemConfigs
    /\ global_config = <<>>
    /\ config_cache = <<>>
    /\ subrubro_thresholds = <<>>
    /\ products_stock \in {<<ps>> : ps \in ProductStockRows}
    /\ forecasts \in {<<f>> : f \in Forecasts}
    /\ results = <<>>
    /\ stock_levels = <<>>
    /\ target_level = "ideal"
    /\ excluded_deposits = {}
    /\ excluded_brands = {}
    /\ result = EmptyResult
    /\ sales_history = <<>>
    /\ days_back = 0
    /\ metodo_preferido = "mediana"
    /\ forecast_result = <<>>
    /\ selection_args = <<>>
    /\ selection_result = <<>>
    /\ IdleClient

\* calculate_all_stock_levels: the configuration is loaded, then every row
\* of products_stock is given its StockLevel.
CalculateAllStockLevels ==
    \E ties \in [1..Len(products_stock) -> Ties] :
        LET global     == LoadGlobalConfig(system_config)
            cache      == LoadConfigCache(system_config, config_cache)
            thresholds == LoadSubrubroThresholds(system_config)
        IN  /\ global_config' = global
            /\ config_cache' = cache
            /\ subrubro_thresholds' = thresholds
            /\ results' = [k \in 1..Len(products_stock) |->
                              StockLevelOf(products_stock[k], forecasts[k],
                                           cache, thresholds, global, ties[k])]
            /\ UNCHANGED <<system_config, products_stock, forecasts>>
            /\ UNCHANGED distVars
            /\ UNCHANGED forecastVars
            /\ UNCHANGED requestVars

NextStock == CalculateAllStockLevels

SpecStock == InitStock /\ [][NextStock]_vars

----------------------------------------------------------------------------
(* Properties of the stock calculator *)

Calculated == results # <<>>

FactorsAtLeastOne ==
    /\ global_config.factor_ideal >= FactorUnit
    /\ global_config.factor_maximo >= FactorUnit

Ordered(sl) == sl.stock_minimo <= sl.stock_ideal /\ sl.stock_ideal <= sl.stock_maximo

\* C6 as stated: every StockLevel with stock_minimo > 0 has stock_minimo <=
\* stock_ideal <= stock_maximo, for every policy with factor_ideal >= 1 and
\* factor_maximo >= 1.
C6_TargetsOrdered_AsStated ==
    (Calculated /\ FactorsAtLeastOne) =>
        \A k \in 1..Len(results) : results[k].stock_minimo > 0 => Ordered(results[k])

\* C6 amended: every StockLevel with stock_minimo > 0 has stock_minimo <=
\* stock_ideal <= stock_maximo, for every policy with
\* 1 <= factor_ideal <= factor_maximo.
C6_TargetsOrdered ==
    (Calculated /\ FactorsAtLeastOne
                /\ global_config.factor_ideal <= global_config.factor_maximo) =>
        \A k \in 1..Len(results) : results[k].stock_minimo > 0 => Ordered(results[k])

\* A StockLevel with three different positive targets under such a policy.
C6_Witness ==
    /\ Calculated
    /\ FactorsAtLeastOne
    /\ global_config.factor_ideal < global_config.factor_maximo
    /\ \E k \in 1..Len(results) :
          /\ 0 < results[k].stock_minimo
          /\ results[k].stock_minimo < results[k].stock_ideal
          /\ results[k].stock_ideal < results[k].stock_maximo

\* C7: in every StockLevel, a stored stock_minimo of 0 comes with a stored
\* stock_ideal of 0 and a stored stock_maximo of 0.
C7_ZeroMinimumZeroTargets ==
    \A k \in 1..Len(results) :
        results[k].stock_minimo = 0 =>
            results[k].stock_ideal = 0 /\ results[k].stock_maximo = 0

\* The ordered status rule on stored fields, all in hundredths.
StatusRule(stock_actual, stock_minimo, stock_maximo) ==
    IF stock_minimo = 0 /\ stock_actual <= 0 THEN "sin_stock"
    ELSE IF stock_minimo = 0 THEN "ok"
    ELSE IF stock_actual <= 0 THEN "sin_stock"
    ELSE IF stock_actual < stock_minimo THEN "bajo_minimo"
    ELSE IF stock_actual > stock_maximo THEN "excedente"
    ELSE "ok"

\* C8: the estado of every StockLevel is the status the ordered rule gives
\* for the stock_actual, stock_minimo and stock_maximo stored in that record.
C8_EstadoOfStoredFields ==
    \A k \in 1..Len(results) :
        results[k].estado = StatusRule(results[k].stock_actual, results[k].stock_minimo,
                                       results[k].stock_maximo)

\* The minimum-sales threshold the configuration table resolves for a
\* subcategory: its own row, else the global row, else the setting.
ResolvedThreshold(subrubro) ==
    IF subrubro # "" /\ HasKey(system_config, Key("umbral_subrubro_", subrubro))
    THEN system_config[Key("umbral_subrubro_", subrubro)]
    ELSE IF HasKey(system_config, Key("umbral_minimo_ventas", ""))
    THEN system_config[Key("umbral_minimo_ventas", "")]
    ELSE min_sales_threshold

\* C9: a row whose ventas_365_dias is below the resolved minimum-sales
\* threshold gets stock_minimo, stock_ideal and stock_maximo 0, whatever its
\* daily demand and stock, and its estado is sin_stock or ok.
C9_Suppression ==
    \A k \in 1..Len(results) :
        results[k].ventas_365_dias < ResolvedThreshold(results[k].subrubro) =>
            /\ results[k].stock_minimo = 0
            /\ results[k].stock_ideal = 0
            /\ results[k].stock_maximo = 0
            /\ results[k].estado \in {"sin_stock", "ok"}

\* A row with demand and stock whose sales pass the global threshold but not
\* the threshold of its subcategory.
C9_Witness ==
    /\ Calculated
    /\ \E k \in 1..Len(results) :
          /\ results[k].ventas_365_dias >= min_sales_threshold
          /\ results[k].ventas_365_dias < ResolvedThreshold(results[k].subrubro)
          /\ results[k].demanda_diaria > 0
          /\ results[k].stock_actual > 0
          /\ results[k].estado = "ok"

----------------------------------------------------------------------------
(* Demand forecaster (app/services/demand_forecaster.py) *)

(***************************************************************************)
(* A sales series is a sequence of rows [fecha, cantidad, monto]: fecha is *)
(* a day number, cantidad a signed number of units (a return is negative)  *)
(* and monto an amount.  The estimates are Python floats in the source;    *)
(* here an estimate is an integer counting 1/DemandUnit of a unit per day, *)
(* the quotient of the source taken exactly and cut to that precision.     *)
(* A confidence is the exact fraction <<numerator, denominator>>.          *)
(***************************************************************************)

\* self.min_days_for_ml, self.min_days_for_movil and the default of
\* ventana_dias.
min_days_for_ml == 30
min_days_for_movil == 14
ventana_dias == 90

\* [q, r] with num * scale = q * den + r and 0 <= r < den, for den > 0 and a
\* scale that is a power of 10, one decimal digit at a time.
RECURSIVE Digits(_, _, _)
Digits(num, den, scale) ==
    IF scale = 1 THEN [q |-> num \div den, r |-> num % den]
    ELSE LET prev == Digits(num, den, scale \div 10)
         IN  [q |-> prev.q * 10 + (prev.r * 10) \div den,
              r |-> (prev.r * 10) % den]

\* float(num / den) in 1/DemandUnit.
DemandOf(num, den) == Digits(num, den, DemandUnit).q

RECURSIVE SumFn(_, _)
SumFn(f, S) ==
    IF S = {} THEN 0
    ELSE LET x == CHOOSE y \in S : TRUE
         IN  f[x] + SumFn(f, S \ {x})

\* f[a] + ... + f[b], by halves.
RECURSIVE SumRange(_, _, _)
SumRange(f, a, b) ==
    IF a > b THEN 0
    ELSE IF a = b THEN f[a]
    ELSE SumRange(f, a, (a + b) \div 2) + SumRange(f, (a + b) \div 2 + 1, b)

Fechas(df) == {df[i].fecha : i \in 1..Len(df)}

\* FechaMax that takes the day of the call for the last date of the series.
FechaMaxToday(df) == 100

\* df['fecha'].max() and df['fecha'].min()
FechaMax(df) == CHOOSE d \in Fechas(df) : \A e \in Fechas(df) : e <= d
FechaMin(df) == CHOOSE d \in Fechas(df) : \A e \in Fechas(df) : d <= e

\* df[df['fecha'] >= fecha_inicio]
Desde(df, fecha_inicio) == SelectSeq(df, LAMBDA row : row.fecha >= fecha_inicio)

\* df['cantidad'].sum() and df['monto'].sum()
TotalCantidad(df) == SumSeq([i \in 1..Len(df) |-> df[i].cantidad])
TotalMonto(df) == SumSeq([i \in 1..Len(df) |-> df[i].monto])

\* df.groupby(df['fecha'].dt.date)['cantidad'].sum(): date -> quantity
DfDiario(df) ==
    [d \in Fechas(df) |-> TotalCantidad(SelectSeq(df, LAMBDA row : row.fecha = d))]

\* _promedio_simple: total_vendido / max(1, dias)
PromedioSimple(df, dias) == DemandOf(TotalCantidad(df), Max(1, dias))

\* The values of a daily series in ascending order.
RECURSIVE AscendingValues(_, _)
AscendingValues(f, S) ==
    IF S = {} THEN <<>>
    ELSE LET d == CHOOSE x \in S : \A y \in S : f[x] <= f[y]
         IN  <<f[d]>> \o AscendingValues(f, S \ {d})

\* TwiceMedian that takes the mean of the smallest and the largest day.
TwiceMidrange(df_diario) ==
    LET sorted == AscendingValues(df_diario, DOMAIN df_diario)
        n == Len(sorted)
    IN  sorted[1] + sorted[n]

\* Twice df_diario.median(): the middle value, or the mean of the two middle
\* values of an even number of days.
TwiceMedian(df_diario) ==
    LET sorted == AscendingValues(df_diario, DOMAIN df_diario)
        n == Len(sorted)
    IN  IF n % 2 = 1 THEN 2 * sorted[(n + 1) \div 2]
        ELSE sorted[n \div 2] + sorted[n \div 2 + 1]

\* _mediana_ajustada: mediana * (dias_con_ventas / max(1, dias))
MedianaAjustada(df, dias) ==
    LET df_diario == DfDiario(df)
        dias_con_ventas == Cardinality(DOMAIN df_diario)
    IN  IF df_diario = <<>> THEN 0
        ELSE DemandOf(TwiceMedian(df_diario) * dias_con_ventas, 2 * Max(1, dias))

\* pesos = np.linspace(1, 2, n) over the n = ventana_dias + 1 days from
\* fecha_fin - ventana_dias to fecha_fin: the weight of day number k of the
\* window, times ventana_dias.
PesoPor(k) == ventana_dias + k

\* _promedio_movil_ponderado: the weighted mean of the daily quantities of
\* the window, a day without sales counting 0.
PromedioMovilPonderado(df, fecha_fin) ==
    LET fecha_inicio == fecha_fin - ventana_dias
        df_reciente  == Desde(df, fecha_inicio)
        df_diario    == DfDiario(df_reciente)
        suma_ponderada ==
            SumFn([d \in DOMAIN df_diario |-> df_diario[d] * PesoPor(d - fecha_inicio)],
                  DOMAIN df_diario)
        suma_pesos == SumRange([k \in 0..ventana_dias |-> PesoPor(k)], 0, ventana_dias)
    IN  IF df_reciente = <<>> THEN 0
        ELSE DemandOf(suma_ponderada, suma_pesos)

\* a < b for two fractions n1/d1 and n2/d2 with n1, n2 >= 0 and d1, d2 > 0,
\* by their continued fractions.
RECURSIVE FracLess(_, _, _, _)
FracLess(n1, d1, n2, d2) ==
    IF n1 \div d1 # n2 \div d2 THEN n1 \div d1 < n2 \div d2
    ELSE IF n2 % d2 = 0 THEN FALSE
    ELSE IF n1 % d1 = 0 THEN TRUE
    ELSE FracLess(d2, n2 % d2, d1, n1 % d1)

Less(a, b) == FracLess(a[1], a[2], b[1], b[2])

\* max(0.3, min(0.95, r2))
ClampConfianza(r2) ==
    IF Less(r2, <<3, 10>>) THEN <<3, 10>>
    ELSE IF Less(<<95, 100>>, r2) THEN <<95, 100>>
    ELSE r2

\* _ml_tendencia: (demanda_proyectada, tendencia, confianza).  With fewer
\* than min_days_for_ml days of sales it is the total over the days of the
\* period; otherwise the least-squares line of the daily quantities y over
\* the days x since the first one.  n * sxy - sx * sy, n * sxx - sx * sx and
\* n * syy - sy * sy are n^2 times the covariance of x and y and the
\* variances of x and of y.
MlTendencia(df, fecha_fin) ==
    LET df_diario == DfDiario(df)
        dates     == DOMAIN df_diario
        n         == Cardinality(dates)
        fecha_min == FechaMin(df)
        sx  == SumFn([d \in dates |-> d - fecha_min], dates)
        sy  == SumFn(df_diario, dates)
        sxy == SumFn([d \in dates |-> (d - fecha_min) * df_diario[d]], dates)
        sxx == SumFn([d \in dates |-> (d - fecha_min) * (d - fecha_min)], dates)
        syy == SumFn([d \in dates |-> df_diario[d] * df_diario[d]], dates)
        cov   == n * sxy - sx * sy
        var_x == n * sxx - sx * sx
        var_y == n * syy - sy * sy
        \* modelo.score(X, y): 1 for a constant series, which the line fits
        r2 == IF var_y = 0 THEN <<1, 1>> ELSE <<cov * cov, var_x * var_y>>
        \* pendiente / max(0.01, promedio_diario) against 0.01 and -0.01
        creciente ==
            IF 100 * sy >= n THEN cov * n * 100 > var_x * sy
            ELSE cov * 10000 > var_x
        decreciente ==
            IF 100 * sy >= n THEN cov * n * 100 < -(var_x * sy)
            ELSE cov * 10000 < -var_x
        dias_futuro == fecha_fin - fecha_min
        \* modelo.predict at day x, times n * var_x
        Prediccion(x) == sy * var_x + cov * (n * x - sx)
        predicciones == SumRange([i \in 0..14 |-> Prediccion(dias_futuro + i)], 0, 14)
    IN  IF n < min_days_for_ml
        THEN [demanda    |-> DemandOf(sy, Max(1, FechaMax(df) - fecha_min + 1)),
              tendencia  |-> "estable",
              confianza  |-> <<3, 10>>]
        ELSE [demanda    |-> Max(0, DemandOf(predicciones, 15 * n * var_x)),
              tendencia  |-> IF creciente THEN "creciente"
                             ELSE IF decreciente THEN "decreciente"
                             ELSE "estable",
              confianza  |-> ClampConfianza(r2)]

\* The method names a DemandForecaster is configured with.
Metodos == {"promedio_simple", "mediana", "combinado"}

\* SeleccionarMejorMetodo that takes the regression from a confidence of 0.6
\* on.
SeleccionarMejorMetodoFromSixTenths(metodo, demanda_simple, demanda_mediana, demanda_movil, demanda_ml, confianza_ml, dias_con_datos, tendencia) ==
    IF metodo = "promedio_simple" THEN <<demanda_simple, "promedio_simple", <<6, 10>>>>
    ELSE IF metodo = "mediana" THEN <<demanda_mediana, "mediana", <<7, 10>>>>
    ELSE IF dias_con_datos < min_days_for_movil THEN <<demanda_mediana, "mediana", <<5, 10>>>>
    ELSE IF dias_con_datos < min_days_for_ml THEN <<demanda_movil, "promedio_movil", <<6, 10>>>>
    ELSE IF ~Less(confianza_ml, <<6, 10>>) /\ tendencia # "estable"
    THEN <<demanda_ml, "ml_tendencia", confianza_ml>>
    ELSE <<(demanda_mediana * 3 + demanda_movil * 4 + demanda_ml * 3) \div 10,
           "combinado", <<7, 10>>>>

\* _seleccionar_mejor_metodo: (demanda, metodo_usado, confianza)
SeleccionarMejorMetodo(metodo, demanda_simple, demanda_mediana, demanda_movil, demanda_ml, confianza_ml, dias_con_datos, tendencia) ==
    IF metodo = "promedio_simple" THEN <<demanda_simple, "promedio_simple", <<6, 10>>>>
    ELSE IF metodo = "mediana" THEN <<demanda_mediana, "mediana", <<7, 10>>>>
    ELSE IF dias_con_datos < min_days_for_movil THEN <<demanda_mediana, "mediana", <<5, 10>>>>
    ELSE IF dias_con_datos < min_days_for_ml THEN <<demanda_movil, "promedio_movil", <<6, 10>>>>
    ELSE IF Less(<<6, 10>>, confianza_ml) /\ tendencia # "estable"
    THEN <<demanda_ml, "ml_tendencia", confianza_ml>>
    ELSE <<(demanda_mediana * 3 + demanda_movil * 4 + demanda_ml * 3) \div 10,
           "combinado", <<7, 10>>>>

\* SinDatos with the confidence of the estimators that lack data.
SinDatosAtThreeTenths ==
    [demanda_diaria  |-> 0,
     metodo_usado    |-> "sin_datos",
     confianza       |-> <<3, 10>>,
     tendencia       |-> "estable",
     ventas_30_dias  |-> 0,
     ventas_60_dias  |-> 0,
     ventas_90_dias  |-> 0,
     ventas_365_dias |-> 0,
     monto_90_dias   |-> 0]

\* The result of the two `sin_datos` returns.
SinDatos ==
    [demanda_diaria  |-> 0,
     metodo_usado    |-> "sin_datos",
     confianza       |-> <<0, 1>>,
     tendencia       |-> "estable",
     ventas_30_dias  |-> 0,
     ventas_60_dias  |-> 0,
     ventas_90_dias  |-> 0,
     ventas_365_dias |-> 0,
     monto_90_dias   |-> 0]

\* CalculateDemandOf that returns the selected estimate as it is.
CalculateDemandOfUnclamped(history, back, metodo) ==
    IF history = <<>> THEN SinDatos
    ELSE LET fecha_fin == FechaMax(history)
             df == Desde(history, fecha_fin - back)
         IN  IF df = <<>> THEN SinDatos
             ELSE LET dias_con_datos == fecha_fin - FechaMin(df) + 1
                      ml == MlTendencia(df, fecha_fin)
                      sel == SeleccionarMejorMetodo(metodo,
                                 PromedioSimple(df, dias_con_datos),
                                 MedianaAjustada(df, dias_con_datos),
                                 PromedioMovilPonderado(df, fecha_fin),
                                 ml.demanda, ml.confianza, dias_con_datos, ml.tendencia)
                  IN  [demanda_diaria  |-> sel[1],
                       metodo_usado    |-> sel[2],
                       confianza       |-> sel[3],
                       tendencia       |-> ml.tendencia,
                       ventas_30_dias  |-> TotalCantidad(Desde(df, fecha_fin - 30)),
                       ventas_60_dias  |-> TotalCantidad(Desde(df, fecha_fin - 60)),
                       ventas_90_dias  |-> TotalCantidad(Desde(df, fecha_fin - 90)),
                       ventas_365_dias |-> TotalCantidad(df),
                       monto_90_dias   |-> TotalMonto(Desde(df, fecha_fin - 90))]

\* DemandForecaster.calculate_demand as a function of its arguments and of
\* metodo_preferido.  Sorting the rows by date changes none of the sums,
\* groups and extremes taken below, so the rows keep their order.
CalculateDemandOf(history, back, metodo) ==
    IF history = <<>> THEN SinDatos
    ELSE LET fecha_fin == FechaMax(history)
             df == Desde(history, fecha_fin - back)
         IN  IF df = <<>> THEN SinDatos
             ELSE LET dias_con_datos == fecha_fin - FechaMin(df) + 1
                      ml == MlTendencia(df, fecha_fin)
                      sel == SeleccionarMejorMetodo(metodo,
                                 PromedioSimple(df, dias_con_datos),
                                 MedianaAjustada(df, dias_con_datos),
                                 PromedioMovilPonderado(df, fecha_fin),
                                 ml.demanda, ml.confianza, dias_con_datos, ml.tendencia)
                  IN  [demanda_diaria  |-> Max(0, sel[1]),
                       metodo_usado    |-> sel[2],
                       confianza       |-> sel[3],
                       tendencia       |-> ml.tendencia,
                       ventas_30_dias  |-> TotalCantidad(Desde(df, fecha_fin - 30)),
                       ventas_60_dias  |-> TotalCantidad(Desde(df, fecha_fin - 60)),
                       ventas_90_dias  |-> TotalCantidad(Desde(df, fecha_fin - 90)),
                       ventas_365_dias |-> TotalCantidad(df),
                       monto_90_dias   |-> TotalMonto(Desde(df, fecha_fin - 90))]

----------------------------------------------------------------------------
(* Inputs of the demand forecaster *)

\* Largest number of rows of a sparse sales series.
MaxSales == 3

Row(fecha, cantidad) == [fecha |-> fecha, cantidad |-> cantidad, monto |-> cantidad * 100]

\* The rows of a sparse series: a sale of 1 or 3 units or a return of 1, on
\* one of four days.  Rows come in any order and may share a day.
SaleRows == {Row(f, c) : f \in {0, 3, 20, 100}, c \in {-1, 1, 3}}

RECURSIVE SeriesOfLength(_)
SeriesOfLength(n) ==
    IF n = 0 THEN {<<>>}
    ELSE {Append(s, row) : s \in SeriesOfLength(n - 1), row \in SaleRows}

SparseSeries == UNION {SeriesOfLength(n) : n \in 0..MaxSales}

\* The quantity of day i of a series with a sale on every day.
Shape(name, i) ==
    CASE name = "constante"  -> 1
      [] name = "creciente"   -> i \div 10
      [] name = "decreciente" -> 2 - i \div 10
      [] name = "alternante"  -> i % 2
      [] name = "devoluciones" -> -(i \div 10)
      [] OTHER -> IF i < 15 THEN 0 ELSE 2

Shapes == {"constante", "creciente", "decreciente", "alternante", "devoluciones", "escalon"}

\* Series with a sale on each of min_days_for_ml consecutive days.
DailySeries ==
    {[i \in 1..min_days_for_ml |-> Row(i - 1, Shape(name, i - 1))] : name \in Shapes}

SalesSeries == SparseSeries \cup DailySeries

\* The windows calculate_demand is called with.
DaysBackValues == {10, 180}

\* The arguments of _seleccionar_mejor_metodo: estimates that differ from one
\* another, confidences around 0.6 and covered days around the two limits.
SelectionArgs ==
    [demanda_simple  : {1000},
     demanda_mediana : {2000},
     demanda_movil   : {3000},
     demanda_ml      : {0, 4000},
     confianza_ml    : {<<3, 10>>, <<6, 10>>, <<61, 100>>, <<95, 100>>},
     dias_con_datos  : {1, min_days_for_movil - 1, min_days_for_movil,
                        min_days_for_ml - 1, min_days_for_ml, 365},
     tendencia       : {"estable", "creciente", "decreciente"}]

----------------------------------------------------------------------------
(* The demand forecaster as a state machine *)

IdleAllocation ==
    /\ stock_levels = <<>>
    /\ target_level = "ideal"
    /\ excluded_deposits = {}
    /\ excluded_brands = {}
    /\ result = EmptyResult

IdleCalculator ==
    /\ system_config = <<>>
    /\ global_config = <<>>
    /\ config_cache = <<>>
    /\ subrubro_thresholds = <<>>
    /\ products_stock = <<>>
    /\ forecasts = <<>>
    /\ results = <<>>

InitForecast ==
    /\ sales_history \in SalesSeries
    /\ days_back \in DaysBackValues
    /\ metodo_preferido \in Metodos
    /\ forecast_result = <<>>
    /\ selection_args = <<>>
    /\ selection_result = <<>>
    /\ IdleAllocation
    /\ IdleCalculator
    /\ IdleClient

\* calculate_demand(sales_history, product_id, deposit_id, days_back)
CalculateDemand ==
    /\ forecast_result' = CalculateDemandOf(sales_history, days_back, metodo_preferido)
    /\ UNCHANGED <<sales_history, days_back, metodo_preferido, selection_args,
                   selection_result>>
    /\ UNCHANGED distVars
    /\ UNCHANGED calcVars
    /\ UNCHANGED requestVars

NextForecast == CalculateDemand

SpecForecast == InitForecast /\ [][NextForecast]_vars

InitSelection ==
    /\ selection_args \in SelectionArgs
    /\ metodo_preferido \in Metodos
    /\ selection_result = <<>>
    /\ sales_history = <<>>
    /\ days_back = 0
    /\ forecast_result = <<>>
    /\ IdleAllocation
    /\ IdleCalculator
    /\ IdleClient

\* _seleccionar_mejor_metodo(demanda_simple, ..., tendencia)
SeleccionarMetodo ==
    /\ selection_result' =
          SeleccionarMejorMetodo(metodo_preferido,
              selection_args.demanda_simple, selection_args.demanda_mediana,
              selection_args.demanda_movil, selection_args.demanda_ml,
              selection_args.confianza_ml, selection_args.dias_con_datos,
              selection_args.tendencia)
    /\ UNCHANGED <<sales_history, days_back, metodo_preferido, forecast_result,
                   selection_args>>
    /\ UNCHANGED distVars
    /\ UNCHANGED calcVars
    /\ UNCHANGED requestVars

NextSelection == SeleccionarMetodo

SpecSelection == InitSelection /\ [][NextSelection]_vars

----------------------------------------------------------------------------
(* Properties of the demand forecaster *)

Forecasted == forecast_result # <<>>

\* C16: for a series made of a single sale of q units and a window of
\* days_back days, the daily_demand returned is within 0.001 of q / days_back,
\* under each of promedio_simple, mediana and combinado.
C16_SingleSale ==
    (Forecasted /\ Len(sales_history) = 1 /\ sales_history[1].cantidad > 0
                /\ days_back > 0) =>
        LET error == forecast_result.demanda_diaria * days_back
                         - sales_history[1].cantidad * DemandUnit
        IN  /\ error < (DemandUnit \div 1000) * days_back
            /\ -error < (DemandUnit \div 1000) * days_back

Selected == selection_result # <<>>

\* C17: _seleccionar_mejor_metodo returns (simple average, 'promedio_simple',
\* 0.6) under promedio_simple and (median-adjusted, 'mediana', 0.7) under
\* mediana for any data volume; under combinado (median-adjusted, 'mediana',
\* 0.5) below 14 covered days, (moving average, 'promedio_movil', 0.6) from 14
\* to 29, (trend regression, 'ml_tendencia', its own confidence) from 30 on
\* when that confidence is above 0.6 and the trend is not stable, and
\* otherwise (0.3 median + 0.4 moving + 0.3 regression, 'combinado', 0.7).
C17_EstimatorSelection ==
    Selected =>
        LET a == selection_args
            trusted == a.confianza_ml[1] * 10 > 6 * a.confianza_ml[2]
                           /\ a.tendencia # "estable"
        IN  /\ metodo_preferido = "promedio_simple" =>
                  selection_result = <<a.demanda_simple, "promedio_simple", <<6, 10>>>>
            /\ metodo_preferido = "mediana" =>
                  selection_result = <<a.demanda_mediana, "mediana", <<7, 10>>>>
            /\ (metodo_preferido = "combinado" /\ a.dias_con_datos < 14) =>
                  selection_result = <<a.demanda_mediana, "mediana", <<5, 10>>>>
            /\ (metodo_preferido = "combinado" /\ a.dias_con_datos \in 14..29) =>
                  selection_result = <<a.demanda_movil, "promedio_movil", <<6, 10>>>>
            /\ (metodo_preferido = "combinado" /\ a.dias_con_datos >= 30 /\ trusted) =>
                  selection_result = <<a.demanda_ml, "ml_tendencia", a.confianza_ml>>
            /\ (metodo_preferido = "combinado" /\ a.dias_con_datos >= 30 /\ ~trusted) =>
                  /\ selection_result[1] * 10
                        = 3 * a.demanda_mediana + 4 * a.demanda_movil + 3 * a.demanda_ml
                  /\ selection_result[2] = "combinado"
                  /\ selection_result[3] = <<7, 10>>

\* A selection under combinado that takes the regression at a confidence just
\* above 0.6.
C17_Witness ==
    /\ Selected
    /\ metodo_preferido = "combinado"
    /\ selection_args.confianza_ml = <<61, 100>>
    /\ selection_result[2] = "ml_tendencia"

\* C18: the daily_demand returned by calculate_demand is >= 0 for every
\* series, returns with negative quantities included, and every method.
C18_DemandNotNegative == Forecasted => forecast_result.demanda_diaria >= 0

\* A series whose quantities sum to less than zero, under each estimate that
\* is then negative before the clamp.
C18_Witness ==
    /\ Forecasted
    /\ TotalCantidad(sales_history) < 0
    /\ \E i \in 1..Len(sales_history) : sales_history[i].cantidad > 0
    /\ forecast_result.metodo_usado \in {"promedio_simple", "combinado"}
    /\ forecast_result.demanda_diaria = 0

\* The rows of the series that lie in the window ending at its last date.
InWindow ==
    {i \in 1..Len(sales_history) :
        \A j \in 1..Len(sales_history) :
            sales_history[i].fecha >= sales_history[j].fecha - days_back}

IsNoData(r) ==
    /\ r.metodo_usado = "sin_datos"
    /\ r.demanda_diaria = 0
    /\ r.confianza[1] = 0
    /\ r.tendencia = "estable"
    /\ r.ventas_30_dias = 0 /\ r.ventas_60_dias = 0
    /\ r.ventas_90_dias = 0 /\ r.ventas_365_dias = 0
    /\ r.monto_90_dias = 0

\* C19: calculate_demand returns the no-data result (method 'sin_datos',
\* daily_demand 0, confidence 0, trend 'estable', the four window sums and
\* the 90-day amount 0) exactly when the series is empty after the window
\* restriction; a non-empty series gets a method label other than 'sin_datos'.
C19_NoData ==
    Forecasted =>
        /\ IsNoData(forecast_result) <=> InWindow = {}
        /\ forecast_result.metodo_usado = "sin_datos" => IsNoData(forecast_result)
        /\ sales_history # <<>> => forecast_result.metodo_usado # "sin_datos"

\* The forecast of the empty series.
C19_Witness ==
    /\ Forecasted
    /\ sales_history = <<>>
    /\ forecast_result.metodo_usado = "sin_datos"


\* The largest amount added to a sale-day.
MaxRaise == 2

\* The days with a row in the window, and the quantity of each.
WindowDays == {sales_history[i].fecha : i \in InWindow}

DayQuantity(d) ==
    SumFn([i \in 1..Len(sales_history) |-> sales_history[i].cantidad],
          {i \in InWindow : sales_history[i].fecha = d})

LargestDays == {d \in WindowDays : \A e \in WindowDays : DayQuantity(d) >= DayQuantity(e)}

\* The series with the quantity of day d raised by k.
Raised(d, k) ==
    LET first == CHOOSE i \in InWindow :
                     /\ sales_history[i].fecha = d
                     /\ \A j \in InWindow : sales_history[j].fecha = d => i <= j
    IN  [i \in 1..Len(sales_history) |->
            IF i = first
            THEN Row(d, sales_history[i].cantidad + k)
            ELSE sales_history[i]]

\* Seven sale-days of 1, 1, 1, 1, 2, 3 and 6 units in a year.
OutlierScenario ==
    <<Row(0, 1), Row(50, 1), Row(100, 1), Row(150, 1), Row(200, 2), Row(250, 3), Row(300, 6)>>

OutlierScenarioAsClaimed ==
    2 * CalculateDemandOf(OutlierScenario, 365, "mediana").demanda_diaria
        < CalculateDemandOf(OutlierScenario, 365, "promedio_simple").demanda_diaria

MedianUnmoved ==
    \A d \in LargestDays, k \in 1..MaxRaise :
        CalculateDemandOf(Raised(d, k), days_back, "mediana").demanda_diaria
            = forecast_result.demanda_diaria

AverageMoved ==
    \A d \in LargestDays, k \in 1..MaxRaise :
        CalculateDemandOf(Raised(d, k), days_back, "promedio_simple").demanda_diaria
            > forecast_result.demanda_diaria

\* C20 as stated: for any series with at least three sale-days, raising the
\* largest sale-day leaves the mediana result unchanged and strictly
\* increases the promedio_simple result; for daily sales 1, 1, 1, 1, 2, 3, 6
\* the mediana result is below half the promedio_simple result.
C20_OutlierRobustness_AsStated ==
    (Forecasted /\ Cardinality(WindowDays) >= 3) =>
        /\ metodo_preferido = "mediana" => MedianUnmoved
        /\ metodo_preferido = "promedio_simple" => AverageMoved
        /\ OutlierScenarioAsClaimed

\* C20: for any series with at least three sale-days, raising the largest
\* sale-day leaves the mediana result unchanged, and strictly increases the
\* promedio_simple result when the quantities of the series do not sum to
\* less than zero; for daily sales 1, 1, 1, 1, 2, 3, 6 the mediana result is
\* below half the promedio_simple result.
C20_OutlierRobustness ==
    (Forecasted /\ Cardinality(WindowDays) >= 3) =>
        /\ metodo_preferido = "mediana" => MedianUnmoved
        /\ (metodo_preferido = "promedio_simple"
                /\ SumFn([d \in WindowDays |-> DayQuantity(d)], WindowDays) >= 0)
              => AverageMoved
        /\ OutlierScenarioAsClaimed

\* A median forecast above zero of three sale-days, one of them the largest.
C20_Witness ==
    /\ Forecasted
    /\ Cardinality(WindowDays) >= 3
    /\ Cardinality(LargestDays) = 1
    /\ metodo_preferido = "mediana"
    /\ forecast_result.demanda_diaria > 0

----------------------------------------------------------------------------
(* Further properties of the allocation engine *)

\* The positions a row may move to: a central row stays in its place, a
\* sucursal takes the place of a sucursal of the same product.
PeerPlaces(i) ==
    IF IsCentral(stock_levels[i])
    THEN {i}
    ELSE {j \in 1..Len(stock_levels) :
             /\ IsSucursal(stock_levels[j])
             /\ stock_levels[j].product_id = stock_levels[i].product_id}

RECURSIVE PeerOrders(_)
PeerOrders(q) ==
    IF Len(q) = Len(stock_levels)
    THEN {q}
    ELSE UNION {PeerOrders(Append(q, j)) :
                  j \in PeerPlaces(Len(q) + 1) \ {q[k] : k \in 1..Len(q)}}

\* The orders of the rows of the last call that keep every central row and
\* every product in its place and permute the sucursales of each product.
PeerPermutations == PeerOrders(<<>>)

Permuted(p) == [i \in 1..Len(stock_levels) |-> stock_levels[p[i]]]

UnitsTransferredIn(r, product_id) ==
    SumSeq(MapSeq(SelectSeq(r.transfers, LAMBDA t : t.product_id = product_id),
                  CantidadTransferir))

DistributionOfPermuted(p) ==
    DistributionOf(Permuted(p), target_level, excluded_deposits, excluded_brands)

\* C24: the units transferred from the central for a product do not depend
\* on the order of its sucursales: for every permutation of the same rows
\* they are min(floor(available_at_central), sum of the rounded positive
\* deficits of the sucursales).
C24_OrderIndependentTotal ==
    IsDistribution =>
        \A i \in 1..Len(Grouped) :
            HasCentral(Grouped[i]) =>
                /\ UnitsTransferred(Grouped[i].product_id)
                      = Min(AvailableAtCentral(Grouped[i]) \div Unit,
                            TotalPeerDeficit(Grouped[i]))
                /\ \A p \in PeerPermutations :
                      UnitsTransferredIn(DistributionOfPermuted(p), Grouped[i].product_id)
                          = UnitsTransferred(Grouped[i].product_id)

\* A call whose pool does not cover its two sucursales, and whose transfers
\* differ from those of the same rows in another order.
C24_Witness ==
    /\ IsDistribution
    /\ \E i \in 1..Len(Grouped) :
          /\ HasCentral(Grouped[i])
          /\ AvailableAtCentral(Grouped[i]) \div Unit >= 1
          /\ AvailableAtCentral(Grouped[i]) \div Unit < TotalPeerDeficit(Grouped[i])
          /\ Len(TransfersOf(Grouped[i].product_id)) = 2
    /\ \E p \in PeerPermutations :
          MapSeq(DistributionOfPermuted(p).transfers, TransferOutcome)
              # MapSeq(result.transfers, TransferOutcome)


ConsistentAtBothEnds(t) ==
    /\ t.stock_origen_despues = t.stock_origen_antes - t.cantidad_transferir * Unit
    /\ t.stock_destino_despues = t.stock_destino_antes + t.cantidad_transferir * Unit

\* C25: every TransferProposal is arithmetically consistent at both ends:
\* stock_origen_despues = stock_origen_antes - cantidad_transferir and
\* stock_destino_despues = stock_destino_antes + cantidad_transferir, for
\* full and partial central transfers and for redistribution transfers.
C25_ConsistentTransfers ==
    \A k \in 1..Len(result.transfers) : ConsistentAtBothEnds(result.transfers[k])


Suppressed(sl) == sl.stock_minimo = 0 /\ sl.stock_ideal = 0 /\ sl.stock_maximo = 0

TransfersTo(sl) ==
    SelectSeq(result.transfers,
              LAMBDA t : /\ t.product_id = sl.product_id
                         /\ t.deposit_destino_nombre = sl.deposito_nombre)

TransfersFrom(sl) ==
    SelectSeq(result.transfers,
              LAMBDA t : /\ t.product_id = sl.product_id
                         /\ t.deposit_origen_nombre = sl.deposito_nombre)

NeedsFor(sl) ==
    SelectSeq(result.purchase_needs,
              LAMBDA n : /\ n.product_id = sl.product_id
                         /\ n.deposit_destino_nombre = sl.deposito_nombre)

\* C26: in generate_distribution a suppressed (product, location) pair, whose
\* three targets are 0, gets no TransferProposal and causes no PurchaseNeed,
\* whatever its available stock (zero and negative included) and whatever
\* the target level.
C26_SuppressedUntouched ==
    IsDistribution =>
        \A i \in 1..Len(Grouped) : \A k \in 1..Len(Grouped[i].deposits) :
            Suppressed(Grouped[i].deposits[k]) =>
                /\ TransfersTo(Grouped[i].deposits[k]) = <<>>
                /\ NeedsFor(Grouped[i].deposits[k]) = <<>>

\* C27: no TransferProposal of generate_excess_redistribution has the central
\* location (DEPOSITO RUTA 9) as its source or as its destination.
C27_PeersOnly ==
    IsRedistribution =>
        \A k \in 1..Len(result.transfers) :
            /\ result.transfers[k].deposit_origen_nombre # CENTRAL_DEPOSIT_NAME
            /\ result.transfers[k].deposit_destino_nombre # CENTRAL_DEPOSIT_NAME

\* What is left of a surplus and of a deficit after the transfers of the
\* last call, in hundredths.
RemainingSurplus(sl) ==
    DisposableSurplus(sl) - SumSeq(MapSeq(TransfersFrom(sl), CantidadTransferir)) * Unit

RemainingDeficit(sl) ==
    NeededAmount(sl) - SumSeq(MapSeq(TransfersTo(sl), CantidadTransferir)) * Unit

\* C29: when generate_excess_redistribution finishes, no product has a
\* surplus location with a remaining disposable surplus >= 1 together with a
\* deficit location with a remaining deficit >= 1.
C29_WorkConserving ==
    IsRedistribution =>
        \A i \in 1..Len(Grouped) :
            \A s, d \in 1..Len(Grouped[i].deposits) :
                ~ /\ IsExcedente(Grouped[i].deposits[s])
                  /\ IsDeficitRow(Grouped[i].deposits[d])
                  /\ RemainingSurplus(Grouped[i].deposits[s]) >= Unit
                  /\ RemainingDeficit(Grouped[i].deposits[d]) >= Unit

\* A redistribution in which two surplus locations give to one deficit
\* location, and one of them keeps part of its surplus.
C29_Witness ==
    /\ IsRedistribution
    /\ Len(result.transfers) = 2
    /\ result.transfers[1].deposit_destino_nombre = result.transfers[2].deposit_destino_nombre
    /\ \E i \in 1..Len(Grouped) : \E s \in 1..Len(Grouped[i].deposits) :
          /\ IsExcedente(Grouped[i].deposits[s])
          /\ TransfersFrom(Grouped[i].deposits[s]) # <<>>
          /\ RemainingSurplus(Grouped[i].deposits[s]) > 0

----------------------------------------------------------------------------
(* Further properties of the stock calculator *)

\* The override loaded for a name under a prefix of the cache, if any.
Configured(prefix, name) == name # "" /\ Key(prefix, Upper(name)) \in DOMAIN config_cache
Override(prefix, name) == config_cache[Key(prefix, Upper(name))]

\* C21: _get_dias_stock follows the precedence brand > subcategory >
\* category > default: it returns the brand override when one is configured
\* for the brand of the product, else the subcategory override, else the
\* category override, else the global default, for every combination of
\* configured overrides.
C21_DiasStockPrecedence ==
    Calculated =>
        \A k \in 1..Len(results) :
            LET ps == products_stock[k]
                dias == results[k].dias_cobertura
                brand == Configured("marca_", ps.marca)
                subcategory == Configured("subrubro_", ps.subrubro)
                category == Configured("rubro_", ps.rubro)
            IN  /\ brand => dias = Override("marca_", ps.marca)
                /\ (~brand /\ subcategory) => dias = Override("subrubro_", ps.subrubro)
                /\ (~brand /\ ~subcategory /\ category) => dias = Override("rubro_", ps.rubro)
                /\ (~brand /\ ~subcategory /\ ~category) =>
                      dias = global_config.dias_stock_default

\* A product without an override for its brand, with one for its subcategory
\* and one for its category.
C21_Witness ==
    /\ Calculated
    /\ ~Configured("marca_", products_stock[1].marca)
    /\ Configured("subrubro_", products_stock[1].subrubro)
    /\ Configured("rubro_", products_stock[1].rubro)
    /\ results[1].dias_cobertura = 7

----------------------------------------------------------------------------
(* The stock calculator under configuration changes *)

\* INSERT ... ON CONFLICT (key) DO UPDATE SET value, and DELETE ... WHERE key.
Put(table, key, value) ==
    [k \in DOMAIN table \cup {key} |-> IF k = key THEN value ELSE table[k]]
Remove(table, key) == [k \in DOMAIN table \ {key} |-> table[k]]

\* The days of stock saved for a brand and for a category: dias_stock is
\* stored as given.
MarcaDiasValues == {-7, 3}
RubroDiasValues == {15}

RecomputeRows ==
    {[product_id       |-> 1,
      deposito_nombre  |-> PeerNames[1],
      marca            |-> m,
      rubro            |-> "Perro",
      subrubro         |-> sr,
      stock_disponible |-> 100] :
        m \in {"", "Royal"}, sr \in {"", "ALIMENTO"}}

RecomputeForecasts ==
    {[demanda_diaria |-> 5000, ventas_365_dias |-> v] : v \in {0, MaxVentas}}

InitRecompute ==
    /\ system_config \in Optional(Key("dias_stock_subrubro_", "ALIMENTO"), {7})
    /\ global_config = <<>>
    /\ config_cache = <<>>
    /\ subrubro_thresholds = <<>>
    /\ products_stock \in {<<ps>> : ps \in RecomputeRows}
    /\ forecasts \in {<<f>> : f \in RecomputeForecasts}
    /\ results = <<>>
    /\ stock_levels = <<>>
    /\ target_level = "ideal"
    /\ excluded_deposits = {}
    /\ excluded_brands = {}
    /\ result = EmptyResult
    /\ sales_history = <<>>
    /\ days_back = 0
    /\ metodo_preferido = "mediana"
    /\ forecast_result = <<>>
    /\ selection_args = <<>>
    /\ selection_result = <<>>
    /\ IdleClient

\* The variables a change of system_config leaves alone.
calculatorVars == <<global_config, config_cache, subrubro_thresholds,
                    products_stock, forecasts, results>>

\* ConfigService.save_marca_config
SaveMarcaConfig ==
    \E dias_stock \in MarcaDiasValues :
        /\ system_config' =
              Put(system_config, Key("dias_stock_marca_", Upper("Royal")), dias_stock)
        /\ UNCHANGED calculatorVars
        /\ UNCHANGED distVars
        /\ UNCHANGED forecastVars
        /\ UNCHANGED requestVars

\* ConfigService.delete_marca_config
DeleteMarcaConfig ==
    /\ system_config' = Remove(system_config, Key("dias_stock_marca_", Upper("Royal")))
    /\ UNCHANGED calculatorVars
    /\ UNCHANGED distVars
    /\ UNCHANGED forecastVars
    /\ UNCHANGED requestVars

\* ConfigService.save_rubro_config
SaveRubroConfig ==
    \E dias_stock \in RubroDiasValues :
        /\ system_config' =
              Put(system_config, Key("dias_stock_rubro_", Upper("Perro")), dias_stock)
        /\ UNCHANGED calculatorVars
        /\ UNCHANGED distVars
        /\ UNCHANGED forecastVars
        /\ UNCHANGED requestVars

\* ConfigService.delete_rubro_config
DeleteRubroConfig ==
    /\ system_config' = Remove(system_config, Key("dias_stock_rubro_", Upper("Perro")))
    /\ UNCHANGED calculatorVars
    /\ UNCHANGED distVars
    /\ UNCHANGED forecastVars
    /\ UNCHANGED requestVars

NextRecompute ==
    \/ SaveMarcaConfig
    \/ DeleteMarcaConfig
    \/ SaveRubroConfig
    \/ DeleteRubroConfig
    \/ CalculateAllStockLevels

SpecRecompute == InitRecompute /\ [][NextRecompute]_vars

----------------------------------------------------------------------------
(* Properties of the stock calculator under configuration changes *)

\* C23: when the resolved days_of_stock is negative the stock-level
\* computation raises an error: it produces no StockLevel with negative days
\* of stock or negative targets.
C23_NegativeDaysRejected ==
    Calculated =>
        \A k \in 1..Len(results) :
            /\ results[k].dias_cobertura >= 0
            /\ results[k].stock_minimo >= 0
            /\ results[k].stock_ideal >= 0
            /\ results[k].stock_maximo >= 0

\* The days of stock the rows of a table give a product: brand, then
\* subcategory, then category, then the default.
DiasStockIn(table, ps) ==
    LET Has(prefix, name) == name # "" /\ Key(prefix, Upper(name)) \in DOMAIN table
    IN  IF Has("dias_stock_marca_", ps.marca)
        THEN table[Key("dias_stock_marca_", Upper(ps.marca))]
        ELSE IF Has("dias_stock_subrubro_", ps.subrubro)
        THEN table[Key("dias_stock_subrubro_", Upper(ps.subrubro))]
        ELSE IF Has("dias_stock_rubro_", ps.rubro)
        THEN table[Key("dias_stock_rubro_", Upper(ps.rubro))]
        ELSE IF Key("dias_stock_default", "") \in DOMAIN table
        THEN table[Key("dias_stock_default", "")]
        ELSE default_stock_days

\* C28: after any sequence of configuration changes and
\* calculate_all_stock_levels calls on the same StockCalculator, the days of
\* stock used for a product depend only on the configuration present at the
\* latest call: an override deleted between two calls no longer affects the
\* second result.
C28_FreshConfiguration ==
    [][CalculateAllStockLevels =>
          \A k \in 1..Len(products_stock) :
              results'[k].dias_cobertura = DiasStockIn(system_config, products_stock[k])]_vars

----------------------------------------------------------------------------
(* Further properties of the demand forecaster *)

\* The numbers of whole days a series is shifted by.
ShiftDays == {-7, 1, 365}

Shifted(k) ==
    [i \in 1..Len(sales_history) |->
        [sales_history[i] EXCEPT !.fecha = @ + k]]

\* The rows of the window dated within n days of the last date of the
\* series, and the sums of their quantities and amounts.
Within(n) ==
    {i \in InWindow :
        \A j \in 1..Len(sales_history) :
            sales_history[i].fecha >= sales_history[j].fecha - n}

QuantityWithin(n) ==
    SumFn([i \in 1..Len(sales_history) |-> sales_history[i].cantidad], Within(n))

AmountWithin(n) ==
    SumFn([i \in 1..Len(sales_history) |-> sales_history[i].monto], Within(n))

\* C22: the forecast is anchored to the last date of the series, not to the
\* clock: shifting every date by the same number of whole days leaves
\* daily_demand, method, confidence, trend and all window sums unchanged, and
\* every window sum covers only the events of its window ending at the last
\* date of the series.
C22_AnchoredToSeries ==
    Forecasted =>
        /\ \A k \in ShiftDays :
              CalculateDemandOf(Shifted(k), days_back, metodo_preferido) = forecast_result
        /\ forecast_result.ventas_30_dias = QuantityWithin(30)
        /\ forecast_result.ventas_60_dias = QuantityWithin(60)
        /\ forecast_result.ventas_90_dias = QuantityWithin(90)
        /\ forecast_result.ventas_365_dias = QuantityWithin(365)
        /\ forecast_result.monto_90_dias = AmountWithin(90)

\* A forecast of a series whose 30-day, 90-day and whole-window sums differ.
C22_Witness ==
    /\ Forecasted
    /\ forecast_result.ventas_30_dias # forecast_result.ventas_90_dias
    /\ forecast_result.ventas_90_dias # forecast_result.ventas_365_dias
    /\ forecast_result.demanda_diaria > 0

----------------------------------------------------------------------------
(* The request loop of the ERP client (DuxAPIClient._make_request) *)

\* Largest max_retries of a client.
MaxRetries == 2

\* `if retry_count >= self.max_retries:` with the former count past the limit.
ExhaustedPastLimit(count, limit) == count > limit

\* `if retry_count >= self.max_retries:`
Exhausted(count, limit) == count >= limit

\* The Retry-After header of a 429 response: absent, a number of seconds, or
\* an HTTP date, which int() refuses.
RetryAfterHeaders == {"absent", "seconds", "date"}

\* The methods _make_request is called with: one it sends, one it refuses.
Methods == {"GET", "PATCH"}

InitRequest ==
    /\ max_retries \in 0..MaxRetries
    /\ retry_count = 0
    /\ request_state = "idle"
    /\ outcomes = <<>>
    /\ stats = NewStats
    /\ consecutive_429_errors = 0
    /\ sales_history = <<>>
    /\ days_back = 0
    /\ metodo_preferido = "mediana"
    /\ forecast_result = <<>>
    /\ selection_args = <<>>
    /\ selection_result = <<>>
    /\ IdleAllocation
    /\ IdleCalculator

\* The call _make_request(method, endpoint) with retry_count = 0, up to its
\* first HTTP attempt; a method other than GET, POST, PUT and DELETE raises
\* ValueError, which neither except clause catches.
MakeRequest ==
    \E method \in Methods :
        /\ request_state = "idle"
        /\ request_state' = IF method = "GET" THEN "requesting" ELSE "raised"
        /\ retry_count' = 0
        /\ UNCHANGED <<max_retries, outcomes, stats, consecutive_429_errors>>
        /\ UNCHANGED distVars
        /\ UNCHANGED calcVars
        /\ UNCHANGED forecastVars

\* An attempt answered with status 429.
Response429 ==
    \E header \in RetryAfterHeaders :
        /\ request_state = "requesting"
        /\ outcomes' = Append(outcomes, "429")
        /\ IF Exhausted(retry_count, max_retries)
           THEN /\ stats' = [stats EXCEPT !.total_requests = @ + 1,
                                          !.rate_limit_errors = @ + 1,
                                          !.failed_requests = @ + 1]
                /\ request_state' = "raised"
                /\ UNCHANGED <<retry_count, consecutive_429_errors>>
           ELSE IF header = "date"
           THEN /\ stats' = [stats EXCEPT !.total_requests = @ + 1,
                                          !.rate_limit_errors = @ + 1]
                /\ request_state' = "raised"
                /\ UNCHANGED <<retry_count, consecutive_429_errors>>
           ELSE /\ stats' = [stats EXCEPT !.total_requests = @ + 1,
                                          !.rate_limit_errors = @ + 1,
                                          !.retries = @ + 1]
                /\ consecutive_429_errors' = consecutive_429_errors + 1
                /\ retry_count' = retry_count + 1
                /\ UNCHANGED request_state
        /\ UNCHANGED max_retries
        /\ UNCHANGED distVars
        /\ UNCHANGED calcVars
        /\ UNCHANGED forecastVars

\* An attempt answered with a status from 500 to 599.
Response5xx ==
    /\ request_state = "requesting"
    /\ outcomes' = Append(outcomes, "5xx")
    /\ IF Exhausted(retry_count, max_retries)
       THEN /\ stats' = [stats EXCEPT !.total_requests = @ + 1,
                                      !.failed_requests = @ + 1]
            /\ request_state' = "raised"
            /\ UNCHANGED retry_count
       ELSE /\ stats' = [stats EXCEPT !.total_requests = @ + 1,
                                      !.retries = @ + 1]
            /\ retry_count' = retry_count + 1
            /\ UNCHANGED request_state
    /\ UNCHANGED <<max_retries, consecutive_429_errors>>
    /\ UNCHANGED distVars
    /\ UNCHANGED calcVars
    /\ UNCHANGED forecastVars

\* An attempt answered with any other status: the response is returned, or
\* raise_for_status raises for a status from 400 to 499.
ResponseOther ==
    \E status \in {"2xx", "4xx"} :
        /\ request_state = "requesting"
        /\ outcomes' = Append(outcomes, status)
        /\ stats' = [stats EXCEPT !.total_requests = @ + 1,
                                  !.successful_requests = @ + 1]
        /\ consecutive_429_errors' = 0
        /\ request_state' = IF status = "2xx" THEN "returned" ELSE "raised"
        /\ UNCHANGED <<max_retries, retry_count>>
        /\ UNCHANGED distVars
        /\ UNCHANGED calcVars
        /\ UNCHANGED forecastVars

\* An attempt that ends in requests.exceptions.Timeout.
RequestTimeout ==
    /\ request_state = "requesting"
    /\ outcomes' = Append(outcomes, "timeout")
    /\ IF Exhausted(retry_count, max_retries)
       THEN /\ stats' = [stats EXCEPT !.failed_requests = @ + 1]
            /\ request_state' = "raised"
            /\ UNCHANGED retry_count
       ELSE /\ stats' = [stats EXCEPT !.retries = @ + 1]
            /\ retry_count' = retry_count + 1
            /\ UNCHANGED request_state
    /\ UNCHANGED <<max_retries, consecutive_429_errors>>
    /\ UNCHANGED distVars
    /\ UNCHANGED calcVars
    /\ UNCHANGED forecastVars

\* An attempt that ends in requests.exceptions.ConnectionError.
RequestConnectionError ==
    /\ request_state = "requesting"
    /\ outcomes' = Append(outcomes, "connection_error")
    /\ IF Exhausted(retry_count, max_retries)
       THEN /\ stats' = [stats EXCEPT !.failed_requests = @ + 1]
            /\ request_state' = "raised"
            /\ UNCHANGED retry_count
       ELSE /\ stats' = [stats EXCEPT !.retries = @ + 1]
            /\ retry_count' = retry_count + 1
            /\ UNCHANGED request_state
    /\ UNCHANGED <<max_retries, consecutive_429_errors>>
    /\ UNCHANGED distVars
    /\ UNCHANGED calcVars
    /\ UNCHANGED forecastVars

NextRequest ==
    \/ MakeRequest
    \/ Response429
    \/ Response5xx
    \/ ResponseOther
    \/ RequestTimeout
    \/ RequestConnectionError

SpecRequest == InitRequest /\ [][NextRequest]_vars

\* Every HTTP attempt ends (timeout=self.timeout) and every wait between two
\* attempts is a finite time.sleep: a call that can take a step takes it.
SpecRequestLive == SpecRequest /\ WF_vars(NextRequest)

----------------------------------------------------------------------------
(* Properties of the request loop *)

Requesting == request_state = "requesting"
Finished == request_state \in {"returned", "raised"}
ErrorKinds == {"429", "5xx", "timeout", "connection_error"}

\* C30: for any sequence of server outcomes (429, 5xx, timeout, connection
\* error, in any mix) one call of _make_request performs at most
\* max_retries + 1 HTTP attempts and then returns a response or raises; it
\* never retries forever, and the retry counter is shared by the error
\* kinds: it counts the failed attempts of every kind.
C30_BoundedRetry ==
    /\ [](Len(outcomes) <= max_retries + 1)
    /\ [](Requesting =>
              /\ retry_count = Len(outcomes)
              /\ \A k \in 1..Len(outcomes) : outcomes[k] \in ErrorKinds)
    /\ Requesting ~> Finished

\* A call that raises after max_retries + 1 attempts that failed in three
\* different ways.
C30_Witness ==
    /\ request_state = "raised"
    /\ Len(outcomes) = max_retries + 1
    /\ Cardinality({outcomes[k] : k \in 1..Len(outcomes)}) >= 3
    /\ outcomes[Len(outcomes)] \in ErrorKinds

====
